---------------------------- MODULE Spec2Model ----------------------------
(***************************************************************************)
(* A model of flang's semantic-analysis driver, lib/Semantics/semantics.cpp *)
(*                                                                         *)
(*   - CommonBlockMap: merging the appearances of a COMMON block by the    *)
(*     name it has in the object file;                                     *)
(*   - the scope index of SemanticsContext (UpdateScopeIndex, FindScope);  *)
(*   - the table of active DO/FORALL index variables;                      *)
(*   - SemanticsVisitor: the composed parse-tree traversal;                *)
(*   - Semantics::Perform and PerformStatementSemantics.                   *)
(*                                                                         *)
(* Each part has its own specification (SpecCommon, SpecScope, SpecIndex,  *)
(* SpecVisit, SpecPerform); the variables of the other parts stay at their *)
(* initial values.  An optional value (std::optional, a nullable pointer)  *)
(* is a sequence of length at most one.                                    *)
(***************************************************************************)
EXTENDS Integers, Sequences, FiniteSets, TLC

VARIABLES
  messages,         \* messages_: the diagnostics reported so far, in order
  symSize,          \* Symbol::size() of every COMMON block symbol
  symInit,          \* which COMMON blocks carry a user-initialized member
  shouldWarn,       \* whether the optional warnings are enabled
  hasCommonBlockMap,\* commonBlockMap_ != nullptr
  commonBlocks,     \* CommonBlockMap::commonBlocks_
  mergeLog,         \* the calls of MapCommonBlockAndCheckConflicts so far
  scopeIndex,       \* scopeIndex_: the entries (key, scope) in the map's order
  sourceRange,      \* Scope::sourceRange() of every scope
  lastExtend,       \* set by an AddSourceRange that moved the end of a range
                    \* and kept its begin: the scope and its former range
  lastFind,         \* the last FindScope call: its argument and outcome
  lastUpdate,       \* the calls of UpdateScopeIndex that the AddSourceRange
                    \* just run made, in order; none after a lookup
  aborted,          \* the process was ended by die, a failed CHECK or a crash
  activeIndexVars,  \* activeIndexVars_: per symbol, its IndexVarInfo if active
  holder,           \* per symbol, the name whose activation found the symbol
                    \* not held and has not been deactivated since
  lastCall,         \* the last call on the index-variable table
  nesting,          \* the constructs entered and not left, each with the name and
                    \* kind it activated, outermost first
  frontModule,      \* the name of the module the program starts with, if any
  isPPC,            \* targetCharacteristics().isPPC()
  features,         \* the enabled ones of OpenACC, OpenMP and CUDA
  warningsAreErrors,\* warningsAreErrors_
  builtinsScope,    \* builtinsScope_, none while null
  ppcBuiltinTypesScope, \* ppcBuiltinTypesScope_, none while null
  ppcBuiltinsScope, \* ppcBuiltinsScope_, none while null
  cudaBuiltinsScope,\* cudaBuiltinsScope_, none while nullopt
  cudaDeviceScope,  \* cudaDeviceScope_, none while nullopt
  moduleReads,      \* the modules asked of ModFileReader, in order
  pc,               \* where Semantics::Perform is
  performLog,       \* the stages and steps started so far, in order
  stageReturns,     \* what the stages that returned have returned, in order
  runReports,       \* the severities the steps of PerformStatementSemantics reported
  performResult,    \* what Perform returned, once it has
  walkStack,        \* the nodes a traversal has entered and not left, root first
  nodeCount,        \* the number of nodes the traversal has entered
  location,         \* location_, none while nullopt
  constructStack,   \* constructStack_
  lastEvent,        \* the last dispatch of Enter or Leave by the traversal
  walkResult,       \* what Walk returned, once it has
  walkStart,        \* the number of messages reported before the walk
  errorSymbols,     \* errorSymbols_
  lastSetError,     \* the last call of SetError, none before the first
  tempNames,        \* tempNames_, a std::set of strings
  scopeNames,       \* the names declared in each scope
  synthesized,      \* the suffixes of the names GetTempName has synthesized
  lastTemp          \* the last call of GetTempName, none before the first

commonVars == <<symSize, symInit, shouldWarn, hasCommonBlockMap, commonBlocks, mergeLog>>

scopeVars == <<scopeIndex, sourceRange, lastExtend, lastFind, lastUpdate>>

indexVars == <<activeIndexVars, holder, lastCall, nesting>>

builtinVars == <<builtinsScope, ppcBuiltinTypesScope, ppcBuiltinsScope, cudaBuiltinsScope,
                 cudaDeviceScope, moduleReads>>

performVars == <<frontModule, isPPC, features, warningsAreErrors, pc, performLog,
                 stageReturns, runReports, performResult>>

visitVars == <<walkStack, nodeCount, location, constructStack, lastEvent, walkResult,
               walkStart>>

errorVars == <<errorSymbols, lastSetError>>

tempVars == <<tempNames, scopeNames, synthesized, lastTemp>>

contextVars == <<errorVars, tempVars>>

vars == <<messages, aborted, commonVars, scopeVars, indexVars, builtinVars, performVars,
          visitVars, contextVars>>

-----------------------------------------------------------------------------
(* Helpers on sequences and sets.                                          *)

SetMax(S) == CHOOSE x \in S : \A y \in S : y <= x

SetMin(S) == CHOOSE x \in S : \A y \in S : x <= y

Last(seq) == seq[Len(seq)]

RECURSIVE Flatten(_)
Flatten(seqs) ==
  IF seqs = <<>> THEN <<>> ELSE Head(seqs) \o Flatten(Tail(seqs))

\* The subsequence of seq whose elements are in S, in seq's order.
RECURSIVE Filter(_, _)
Filter(seq, S) ==
  IF seq = <<>> THEN <<>>
  ELSE (IF Head(seq) \in S THEN <<Head(seq)>> ELSE <<>>) \o Filter(Tail(seq), S)

-----------------------------------------------------------------------------
(* Diagnostics: parser::Message with its attachments.                      *)

\* Say(at, text, arg).Attach(noteAt, noteText)
Message(sev, text, at, arg, notes) ==
  [sev |-> sev, text |-> text, at |-> at, arg |-> arg, attach |-> notes]

Note(at, text, arg) == [at |-> at, text |-> text, arg |-> arg]

-----------------------------------------------------------------------------
(* The COMMON block symbols of the program being compiled: four            *)
(* appearances in two program units p1 and p2.  c1 is /x/, c2 is /y/ with  *)
(* BIND(C, NAME="x_"), c3 and c4 are blank COMMON.                          *)

MaxSize == 1

MaxMerges == 3

CommonSyms == {"c1", "c2", "c3", "c4"}

\* Symbol::name() of a COMMON block symbol; empty for blank COMMON.
SymbolName(c) ==
  CASE c = "c1" -> "x" [] c = "c2" -> "y" [] OTHER -> ""

\* Symbol::GetBindName()
BindName(c) == IF c = "c2" THEN <<"x_">> ELSE <<>>

\* Symbol::owner(): the scope that declares the COMMON block.
Owner(c) == IF c \in {"c1", "c3"} THEN "p1" ELSE "p2"

\* CommonBlockDetails::objects(): the members, in declaration order.
Objects(c) ==
  CASE c = "c1" -> <<"c1.a", "c1.b">>
    [] c = "c2" -> <<"c2.a">>
    [] c = "c3" -> <<"c3.a">>
    [] c = "c4" -> <<"c4.a", "c4.b">>

\* Scope::equivalenceSets(): the objects of each EQUIVALENCE set of a scope.
EquivalenceSets(scope) ==
  IF scope = "p1"
  THEN << <<"c1.t", "c3.e", "c1.e">>, <<"c3.f">> >>
  ELSE << <<"c2.e">>, <<"c4.t", "c2.f", "c4.e">> >>

\* Symbol::Flag::CompilerCreated
CompilerCreated == {"c1.t", "c4.t"}

\* FindCommonBlockContaining(member): the COMMON block a symbol is stored in.
FindCommonBlockContaining(m) ==
  CHOOSE c \in CommonSyms :
    m \in {c \o ".a", c \o ".b", c \o ".e", c \o ".f", c \o ".t"}

\* The member that carries the initial value when the program initializes
\* COMMON block c: a direct member of c1 and c4, an object equivalenced
\* into the block for c2 and c3.
InitMember(c) ==
  CASE c = "c1" -> "c1.b" [] c = "c2" -> "c2.e"
    [] c = "c3" -> "c3.e" [] c = "c4" -> "c4.a"

\* IsInitialized(symbol).  The compiler-created equivalence objects carry an
\* initial value in every program.
IsInitialized(m) ==
  \/ m \in CompilerCreated
  \/ \E c \in CommonSyms : symInit[c] /\ m = InitMember(c)

\* The first element of seq that is in S, or none.
FirstIn(seq, S) ==
  LET idx == {i \in 1..Len(seq) : seq[i] \in S}
  IN IF idx = {} THEN <<>> ELSE <<seq[SetMin(idx)]>>

\* GetCommonBlockObjectName(common, underscoring), with underscoring on.
GetCommonBlockObjectName(c) ==
  IF BindName(c) # <<>> THEN BindName(c)[1]
  ELSE IF SymbolName(c) = "" THEN "__BLNK__"
  ELSE SymbolName(c) \o "_"

\* The object names in the order of std::map<std::string, ...>.
LinkNames == <<"__BLNK__", "x_">>

\* CommonBlockMap::CommonBlockIsInitialized: the initialized member, or null.
CommonBlockIsInitialized(common) ==
  LET members == {Objects(common)[i] : i \in 1..Len(Objects(common))}
      direct  == FirstIn(Objects(common), {m \in members : IsInitialized(m)})
      equiv   == Flatten(EquivalenceSets(Owner(common)))
      objs    == {equiv[i] : i \in 1..Len(equiv)}
  IN IF direct # <<>> THEN direct
     ELSE FirstIn(equiv, {m \in objs : /\ m \notin CompilerCreated
                                       /\ FindCommonBlockContaining(m) = common
                                       /\ IsInitialized(m)})

\* Lines 266-268: this appearance is initialized and another symbol already
\* is the initialization of the block.
MultipleInitialization(common, info, isInitialized) ==
  /\ isInitialized # <<>>
  /\ info.initialization # <<>>
  /\ info.initialization[1] # common

MultipleInitializationMessage_NoteAtSelf(common, info, isInitialized) ==
  Message("error", "Multiple initialization of COMMON block", isInitialized[1],
          SymbolName(common),
          <<Note(isInitialized[1],
                 "Previous initialization of COMMON block", SymbolName(common))>>)

\* Lines 272-280: the error, located at this appearance's initialized member,
\* with a note at the initialized member of the previous initialization.
MultipleInitializationMessage(common, info, isInitialized) ==
  Message("error", "Multiple initialization of COMMON block", isInitialized[1],
          SymbolName(common),
          <<Note(CommonBlockIsInitialized(info.initialization[1])[1],
                 "Previous initialization of COMMON block", SymbolName(common))>>)

DistinctSizesMessages_BlankToo(common, info) ==
  IF /\ symSize[common] # symSize[info.biggestSize]
     /\ "DistinctCommonSizes" \in shouldWarn
  THEN <<Message("portability", "A named COMMON block should have the same size",
                 common, symSize[common],
                 <<Note(info.biggestSize, "Previously defined with a size",
                        symSize[info.biggestSize])>>)>>
  ELSE <<>>

\* Lines 285-294: the portability warning on distinct sizes.
DistinctSizesMessages(common, info) ==
  IF /\ symSize[common] # symSize[info.biggestSize]
     /\ SymbolName(common) # ""
     /\ "DistinctCommonSizes" \in shouldWarn
  THEN <<Message("portability", "A named COMMON block should have the same size",
                 common, symSize[common],
                 <<Note(info.biggestSize, "Previously defined with a size",
                        symSize[info.biggestSize])>>)>>
  ELSE <<>>

NewBiggestSize_KeepFirst(common, info) == info.biggestSize

\* Lines 295-297
NewBiggestSize(common, info) ==
  IF symSize[common] > symSize[info.biggestSize] THEN common ELSE info.biggestSize

NewInitialization_Latest(common, info, isInitialized) ==
  IF isInitialized # <<>> THEN <<common>> ELSE info.initialization

\* Lines 266-284
NewInitialization(common, info, isInitialized) ==
  IF isInitialized # <<>> /\ ~MultipleInitialization(common, info, isInitialized)
  THEN <<common>>
  ELSE info.initialization

\* CommonBlockMap::MapCommonBlockAndCheckConflicts, called through
\* SemanticsContext::MapCommonBlockAndCheckConflicts.
MapCommonBlockAndCheckConflicts(common) ==
  LET isInitialized == CommonBlockIsInitialized(common)
      commonName    == GetCommonBlockObjectName(common)
  IN /\ Len(mergeLog) < MaxMerges
     /\ hasCommonBlockMap' = TRUE
     /\ mergeLog' = Append(mergeLog, common)
     /\ IF commonName \notin DOMAIN commonBlocks
        THEN /\ commonBlocks' =
                  (commonName :> [biggestSize |-> common,
                                  initialization |->
                                    IF isInitialized # <<>> THEN <<common>> ELSE <<>>])
                  @@ commonBlocks
             /\ UNCHANGED messages
        ELSE LET info == commonBlocks[commonName]
             IN /\ messages' = messages
                     \o (IF MultipleInitialization(common, info, isInitialized)
                         THEN <<MultipleInitializationMessage(common, info, isInitialized)>>
                         ELSE <<>>)
                     \o DistinctSizesMessages(common, info)
                /\ commonBlocks' =
                     [commonBlocks EXCEPT ![commonName] =
                        [biggestSize |-> NewBiggestSize(common, info),
                         initialization |-> NewInitialization(common, info, isInitialized)]]
     /\ UNCHANGED <<symSize, symInit, shouldWarn, aborted, scopeVars, indexVars,
                  builtinVars, performVars, visitVars,
                 contextVars>>

GetCommonBlocks_SizeOfChosen(blocks) ==
  LET present == Filter(LinkNames, DOMAIN blocks)
  IN [i \in 1..Len(present) |->
        LET blockInfo == blocks[present[i]]
            chosen == IF blockInfo.initialization # <<>>
                      THEN blockInfo.initialization[1] ELSE blockInfo.biggestSize
        IN <<chosen, symSize[chosen]>>]

\* CommonBlockMap::GetCommonBlocks: (symbol, size) per object name, in the
\* order of the map.
CommonBlockMapGetCommonBlocks(blocks) ==
  LET present == Filter(LinkNames, DOMAIN blocks)
  IN [i \in 1..Len(present) |->
        LET blockInfo == blocks[present[i]]
        IN <<IF blockInfo.initialization # <<>>
             THEN blockInfo.initialization[1] ELSE blockInfo.biggestSize,
             symSize[blockInfo.biggestSize]>>]

\* SemanticsContext::GetCommonBlocks
GetCommonBlocks ==
  IF hasCommonBlockMap THEN CommonBlockMapGetCommonBlocks(commonBlocks) ELSE <<>>

-----------------------------------------------------------------------------
(* The scope index.  A source position is a number in 0..MaxPos and a      *)
(* parser::CharBlock is a range [begin, begin + size) of positions.        *)

MaxPos == 2

\* Three scopes below the global scope, which is not indexed: s2 is
\* contained in s1, and s3 is a sibling of s1.
Scopes == {"s1", "s2", "s3"}

\* Scope::parent(), none for a child of the global scope.
Parent(s) == IF s = "s2" THEN <<"s1">> ELSE <<>>

CharBlock(b, n) == [begin |-> b, size |-> n]

\* The begin() of a default-constructed CharBlock, a null pointer: it
\* compares below every position of the cooked source, which are 0..MaxPos.
NullBegin == -1

\* A default-constructed CharBlock.
EmptyBlock == CharBlock(NullBegin, 0)

CharBlocks ==
  {CharBlock(b, n) : b \in 0..MaxPos, n \in 0..(MaxPos + 1)} \cap
  {x \in [begin : 0..MaxPos, size : 0..(MaxPos + 1)] : x.begin + x.size <= MaxPos + 1}

BlockEnd(x) == x.begin + x.size

\* CharBlock::Contains, i.e. common::Interval::Contains(const Interval &)
Contains(x, that) ==
  IF that.size = 0
  THEN that.begin >= x.begin /\ that.begin <= x.begin + x.size
  ELSE IF x.size = 0 THEN FALSE
  ELSE /\ x.begin <= that.begin /\ that.begin < x.begin + x.size
       /\ x.begin <= that.begin + (that.size - 1)
       /\ that.begin + (that.size - 1) < x.begin + x.size

\* CharBlock::ExtendToCover
ExtendToCover(x, that) ==
  IF x.size = 0 THEN that
  ELSE IF that.size = 0 THEN x
  ELSE LET start == IF x.begin < that.begin THEN x.begin ELSE that.begin
           end   == IF BlockEnd(x) > BlockEnd(that) THEN BlockEnd(x) ELSE BlockEnd(that)
       IN CharBlock(start, end - start)

ScopeIndexComparator_SmallerFirst(x, y) ==
  x.begin < y.begin \/ (x.begin = y.begin /\ x.size < y.size)

\* SemanticsContext::ScopeIndexComparator::operator()
ScopeIndexComparator(x, y) ==
  x.begin < y.begin \/ (x.begin = y.begin /\ x.size > y.size)

\* std::multimap::upper_bound: the position of the first entry whose key is
\* ordered after key, Len(index) + 1 (end) when there is none.
UpperBound(index, key) ==
  LET after == {i \in 1..Len(index) : ScopeIndexComparator(key, index[i].key)}
  IN IF after = {} THEN Len(index) + 1 ELSE SetMin(after)

\* std::multimap::emplace: after the entries with an equivalent key.
Emplace(index, key, scope) ==
  LET ub == UpperBound(index, key)
  IN SubSeq(index, 1, ub - 1) \o <<[key |-> key, scope |-> scope]>>
       \o SubSeq(index, ub, Len(index))

\* std::multimap::erase(iterator)
Erase(index, pos) == SubSeq(index, 1, pos - 1) \o SubSeq(index, pos + 1, Len(index))

\* The outcome of a search is the position of the entry found, or one of:
SearchEnd == [pos |-> "end"]

SearchCrash == [pos |-> "crash"]

Found(i) == [pos |-> "entry", at |-> i]

\* What decrementing begin() may do (lines 415-418 when upper_bound returns
\* begin()): the behaviour is undefined.  The scan then either finds nothing,
\* no entry ordered after the key containing it, or the process crashes.
DecrementBeginOutcomes == {SearchEnd, SearchCrash}

\* SemanticsContext::SearchScopeIndex: the set of possible outcomes.
SearchScopeIndex(index, source) ==
  IF index = <<>> THEN {SearchEnd}
  ELSE LET ub == UpperBound(index, source)
           hits == {i \in 1..(ub - 1) : Contains(index[i].key, source)}
       IN IF ub = 1 THEN DecrementBeginOutcomes
          ELSE IF hits = {} THEN {SearchEnd} ELSE {Found(SetMax(hits))}

\* The entries the do-while loop of SearchScopeIndex visits, in the order it
\* visits them, when upper_bound does not return begin(): from the entry
\* before the upper bound back to the first one that contains the source, or
\* to begin() when none does.
ScanSequence(index, source) ==
  LET ub   == UpperBound(index, source)
      hits == {i \in 1..(ub - 1) : Contains(index[i].key, source)}
      stop == IF hits = {} THEN 1 ELSE SetMax(hits)
  IN [k \in 1..(ub - stop) |-> index[ub - k]]

\* SemanticsContext::FindScope, given the outcome of the search: the scope
\* found, or "die"; a crash of the search is a crash of the call.
FindScopeOutcome(index, found) ==
  CASE found.pos = "end" -> "die"
    [] found.pos = "crash" -> "crash"
    [] OTHER -> index[found.at].scope

FindScope(source) ==
  /\ ~aborted
  /\ \E found \in SearchScopeIndex(scopeIndex, source) :
       LET outcome == FindScopeOutcome(scopeIndex, found)
       IN /\ lastFind' = <<[source |-> source, result |-> outcome]>>
          /\ aborted' = (outcome \in {"die", "crash"})
  /\ lastUpdate' = <<>>
  /\ UNCHANGED <<messages, commonVars, indexVars, scopeIndex, sourceRange, lastExtend,
                 builtinVars, performVars, visitVars, contextVars>>

UpdateScopeIndex_KeepOldKey(index, range, scope, newSource) ==
  IF range.size = 0 THEN [index |-> Emplace(index, newSource, scope), ok |-> TRUE]
  ELSE [index |-> index, ok |-> TRUE]

UpdateScopeIndex_NoErase(index, range, scope, newSource) ==
  IF range.size = 0 \/ ~Contains(range, newSource)
  THEN [index |-> Emplace(index, newSource, scope), ok |-> TRUE]
  ELSE [index |-> index, ok |-> TRUE]

\* SemanticsContext::UpdateScopeIndex for a scope whose sourceRange() is
\* range: the new index, and whether the CHECKs passed and no crash occurred.
UpdateScopeIndex(index, range, scope, newSource) ==
  IF range.size = 0
  THEN [index |-> Emplace(index, newSource, scope), ok |-> TRUE]
  ELSE IF ~Contains(range, newSource)
  THEN LET found == CHOOSE f \in SearchScopeIndex(index, range) : TRUE
           mine  == IF found.pos # "entry" THEN {}
                    ELSE {i \in 1..found.at : index[i].scope = scope}
       IN IF mine = {} THEN [index |-> index, ok |-> FALSE]
          ELSE [index |-> Emplace(Erase(index, SetMax(mine)), newSource, scope),
                ok |-> TRUE]
  ELSE [index |-> index, ok |-> TRUE]

\* The scope and its ancestors below the global scope, innermost first.
RECURSIVE ScopeChain(_)
ScopeChain(s) ==
  IF Parent(s) = <<>> THEN <<s>> ELSE <<s>> \o ScopeChain(Parent(s)[1])

\* One call of UpdateScopeIndex(scope, newSource): the ranges the scopes had
\* and the index before the call, the index after it, and whether the call
\* returned.
UpdateCall(scope, ranges, newSource, before, upd) ==
  [scope |-> scope, ranges |-> ranges, newSource |-> newSource,
   before |-> before, after |-> upd.index, ok |-> upd.ok]

\* Scope::AddSourceRange, the caller of UpdateScopeIndex: for the scope and
\* each of its ancestors, the index is updated with the union of the scope's
\* range and the new source, and the range is then set to that union.  The
\* calls of UpdateScopeIndex it makes are kept in order.
RECURSIVE AddSourceRangeTo(_, _, _)
AddSourceRangeTo(chain, source, st) ==
  IF chain = <<>> \/ ~st.ok THEN st
  ELSE LET scope    == Head(chain)
           combined == ExtendToCover(st.ranges[scope], source)
           upd      == UpdateScopeIndex(st.index, st.ranges[scope], scope, combined)
       IN AddSourceRangeTo(Tail(chain), source,
            [index  |-> upd.index,
             ranges |-> IF upd.ok THEN [st.ranges EXCEPT ![scope] = combined]
                        ELSE st.ranges,
             ok     |-> upd.ok,
             calls  |-> Append(st.calls,
                          UpdateCall(scope, st.ranges, combined, st.index, upd))])

AddSourceRange(scope, source) ==
  /\ ~aborted
  /\ source.size # 0
  /\ LET st == AddSourceRangeTo(ScopeChain(scope), source,
                 [index |-> scopeIndex, ranges |-> sourceRange, ok |-> TRUE,
                  calls |-> <<>>])
     IN /\ scopeIndex' = st.index
        /\ sourceRange' = st.ranges
        /\ aborted' = ~st.ok
        /\ lastUpdate' = st.calls
  /\ lastExtend' =
       IF /\ sourceRange[scope].size # 0
          /\ sourceRange[scope].begin <= source.begin
          /\ BlockEnd(sourceRange[scope]) < BlockEnd(source)
       THEN <<[scope |-> scope, was |-> sourceRange[scope]]>>
       ELSE <<>>
  /\ lastFind' = <<>>
  /\ UNCHANGED <<messages, commonVars, indexVars, builtinVars, performVars,
                 visitVars, contextVars>>

\* The sources a direct call of UpdateScopeIndex is given: any block of the
\* cooked source, and the default-constructed one.
PassedSources == CharBlocks \cup {EmptyBlock}

\* The scopes the direct calls are made for: two siblings.
UpdatedScopes == {"s1", "s3"}

\* Direct calls are followed while the index holds no more entries than
\* there are scopes called for.
MaxEntries == Cardinality(UpdatedScopes)

\* A call of the public UpdateScopeIndex from outside Scope::AddSourceRange:
\* newSource is whatever the caller passes, and the range of the scope,
\* which belongs to the scope, is left as it is.
UpdateScopeIndexCall(scope, newSource) ==
  /\ ~aborted
  /\ LET upd == UpdateScopeIndex(scopeIndex, sourceRange[scope], scope, newSource)
     IN /\ Len(upd.index) <= MaxEntries
        /\ scopeIndex' = upd.index
        /\ aborted' = ~upd.ok
  /\ lastExtend' = <<>>
  /\ lastFind' = <<>>
  /\ lastUpdate' = <<>>
  /\ UNCHANGED <<messages, commonVars, indexVars, sourceRange, builtinVars, performVars,
                 visitVars, contextVars>>

-----------------------------------------------------------------------------
(* The active DO/FORALL index variables.                                   *)

MaxMessages == 1

\* The deepest nesting of DO and FORALL constructs.
MaxNesting == 3

\* The symbols: a is an associate name for i (ASSOCIATE (a => i)).
Symbols == {"i", "j", "a"}

\* The occurrences of names in the program (parser::Name): n1 names i, n2
\* names a in another construct, n3 names j, n4 was left unresolved, and n5
\* names i again in another construct.
Names == {"n1", "n2", "n3", "n4", "n5"}

\* parser::Name::source: the place of the occurrence in the cooked source.
NameSource(n) ==
  CASE n = "n1" -> "L1" [] n = "n2" -> "L2" [] n = "n3" -> "L3" [] n = "n4" -> "L4"
    [] n = "n5" -> "L5"

\* parser::Name::symbol, none when null
NameSymbol(n) ==
  CASE n = "n1" -> <<"i">> [] n = "n2" -> <<"a">>
    [] n = "n3" -> <<"j">> [] n = "n4" -> <<>> [] n = "n5" -> <<"i">>

\* The characters of the cooked source at a place.
Characters(source) ==
  CASE source = "L1" -> "i" [] source = "L2" -> "a" [] source = "L3" -> "j"
    [] source = "L4" -> "x" [] source = "L5" -> "i"

\* CharBlock::operator==: two blocks are equal when their characters are,
\* wherever they lie.
CharBlockEqual(x, y) == Characters(x) = Characters(y)

IndexVarKind == {"DO", "FORALL"}

\* ResolveAssociations(symbol): the entity behind an associate name.
RECURSIVE ResolveAssociations(_)
ResolveAssociations(symbol) ==
  IF symbol = "a" THEN ResolveAssociations("i") ELSE symbol

IndexVarInfo(source, kind) == [location |-> source, kind |-> kind]

CheckIndexVarRedefineSay_NoteAtUse(table, source, variable, sev, text) ==
  LET symbol == ResolveAssociations(variable)
  IN IF table[symbol] # <<>>
     THEN <<Message(sev, text, source, <<table[symbol][1].kind, symbol>>,
                    <<Note(source, "Enclosing construct", table[symbol][1].kind)>>)>>
     ELSE <<>>

\* CheckIndexVarRedefine(location, variable, message), lines 472-485: the
\* messages it reports.
CheckIndexVarRedefineSay(table, source, variable, sev, text) ==
  LET symbol == ResolveAssociations(variable)
  IN IF table[symbol] # <<>>
     THEN <<Message(sev, text, source, <<table[symbol][1].kind, symbol>>,
                    <<Note(table[symbol][1].location, "Enclosing construct",
                           table[symbol][1].kind)>>)>>
     ELSE <<>>

\* CheckIndexVarRedefine(const parser::Name &), lines 497-501 and 509-513
CheckIndexVarRedefineName(table, name) ==
  IF NameSymbol(name) # <<>>
  THEN CheckIndexVarRedefineSay(table, NameSource(name), NameSymbol(name)[1],
                                "error", "Cannot redefine variable")
  ELSE <<>>

\* A call that reports is taken only while the message list has room.
Room(said) == said = <<>> \/ Len(messages) < MaxMessages

CheckIndexVarRedefine(name) ==
  LET said == CheckIndexVarRedefineName(activeIndexVars, name)
  IN /\ Room(said)
     /\ messages' = messages \o said
     /\ lastCall' = [op |-> "Check", name |-> name, kind |-> "-"]
     /\ UNCHANGED <<activeIndexVars, holder, shouldWarn, nesting>>
     /\ UNCHANGED <<aborted, symSize, symInit, hasCommonBlockMap, commonBlocks,
                    mergeLog, scopeVars, builtinVars, performVars, visitVars,
                 contextVars>>

\* SemanticsContext::WarnIndexVarRedefine at the source of a name.
WarnIndexVarRedefine(name) ==
  LET said == IF "IndexVarRedefinition" \in shouldWarn /\ NameSymbol(name) # <<>>
              THEN CheckIndexVarRedefineSay(activeIndexVars, NameSource(name),
                     NameSymbol(name)[1], "warning", "Possible redefinition of variable")
              ELSE <<>>
  IN /\ NameSymbol(name) # <<>>
     /\ Room(said)
     /\ messages' = messages \o said
     /\ lastCall' = [op |-> "Warn", name |-> name, kind |-> "-"]
     /\ UNCHANGED <<activeIndexVars, holder, shouldWarn, nesting>>
     /\ UNCHANGED <<aborted, symSize, symInit, hasCommonBlockMap, commonBlocks,
                    mergeLog, scopeVars, builtinVars, performVars, visitVars,
                 contextVars>>

Emplaced_Replace(table, symbol, info) == [table EXCEPT ![symbol] = <<info>>]

\* std::map::emplace: an entry is inserted only if the key has none.
Emplaced(table, symbol, info) ==
  IF table[symbol] = <<>> THEN [table EXCEPT ![symbol] = <<info>>] ELSE table

\* SemanticsContext::ActivateIndexVar
ActivateIndexVarCall(name, kind) ==
  LET said == CheckIndexVarRedefineName(activeIndexVars, name)
  IN /\ Room(said)
     /\ messages' = messages \o said
     /\ IF NameSymbol(name) # <<>>
        THEN LET indexVar == ResolveAssociations(NameSymbol(name)[1])
             IN /\ activeIndexVars' =
                     Emplaced(activeIndexVars, indexVar,
                              IndexVarInfo(NameSource(name), kind))
                /\ holder' = IF holder[indexVar] = <<>>
                             THEN [holder EXCEPT ![indexVar] = <<name>>]
                             ELSE holder
        ELSE UNCHANGED <<activeIndexVars, holder>>
     /\ lastCall' = [op |-> "Activate", name |-> name, kind |-> kind]
     /\ UNCHANGED <<aborted, shouldWarn, symSize, symInit, hasCommonBlockMap,
                    commonBlocks, mergeLog, scopeVars, builtinVars, performVars, visitVars,
                 contextVars>>

\* A call of ActivateIndexVar from anywhere.
ActivateIndexVar(name, kind) ==
  /\ ActivateIndexVarCall(name, kind)
  /\ UNCHANGED nesting

\* The names of the constructs entered and not left.
OpenNames == {nesting[i].name : i \in 1..Len(nesting)}

\* A DO or FORALL construct is entered: its index name is activated.  The
\* construct of one name occurrence is not inside itself.
EnterIndexConstruct(name, kind) ==
  /\ Len(nesting) < MaxNesting
  /\ name \notin OpenNames
  /\ ActivateIndexVarCall(name, kind)
  /\ nesting' = Append(nesting, [name |-> name, kind |-> kind])

\* Lines 526-529: the entry is erased if its location compares equal to the
\* name's source.
Erased(table, symbol, source) ==
  IF table[symbol] # <<>> /\ CharBlockEqual(table[symbol][1].location, source)
  THEN [table EXCEPT ![symbol] = <<>>]
  ELSE table

\* SemanticsContext::DeactivateIndexVar
DeactivateIndexVarCall(name) ==
  /\ IF NameSymbol(name) # <<>>
     THEN LET indexVar == ResolveAssociations(NameSymbol(name)[1])
          IN /\ activeIndexVars' = Erased(activeIndexVars, indexVar, NameSource(name))
             /\ holder' = IF holder[indexVar] = <<name>>
                          THEN [holder EXCEPT ![indexVar] = <<>>]
                          ELSE holder
     ELSE UNCHANGED <<activeIndexVars, holder>>
  /\ lastCall' = [op |-> "Deactivate", name |-> name, kind |-> "-"]
  /\ UNCHANGED <<messages, aborted, shouldWarn, symSize, symInit, hasCommonBlockMap,
                 commonBlocks, mergeLog, scopeVars, builtinVars, performVars, visitVars,
                 contextVars>>

\* A call of DeactivateIndexVar from anywhere.
DeactivateIndexVar(name) ==
  /\ DeactivateIndexVarCall(name)
  /\ UNCHANGED nesting

\* The innermost construct entered is left: its index name is deactivated.
LeaveIndexConstruct ==
  /\ nesting # <<>>
  /\ DeactivateIndexVarCall(Last(nesting).name)
  /\ nesting' = SubSeq(nesting, 1, Len(nesting) - 1)

-----------------------------------------------------------------------------
(* Semantics::Perform and PerformStatementSemantics.  The stages and steps *)
(* other than these two functions are external: each may report a          *)
(* diagnostic, and each stage returns success or failure.                  *)

\* parser::Messages::AnyFatalError(warningsAreErrors): an error is fatal, a
\* warning is when warnings are errors, a portability note never is.
MessagesAnyFatalError(msgs, asErrors) ==
  \E i \in 1..Len(msgs) :
    \/ msgs[i].sev = "error"
    \/ msgs[i].sev = "warning" /\ asErrors

AnyFatalError_ErrorsOnly == MessagesAnyFatalError(messages, FALSE)

\* SemanticsContext::AnyFatalError
AnyFatalError == MessagesAnyFatalError(messages, warningsAreErrors)

\* What an external stage or step may report: nothing, an error or a
\* warning.  The driver only asks the message list whether it holds a fatal
\* message, so of the external diagnostics only the first of each severity
\* is kept.
ExternalReports == {"none", "error", "warning"}

Reported(msgs, sev) ==
  IF sev = "none" \/ \E i \in 1..Len(msgs) : msgs[i].sev = sev /\ msgs[i].text = "external"
  THEN msgs
  ELSE Append(msgs, Message(sev, "external", "-", "-", <<>>))

\* What frontModule holds for a program without program units.
EmptyProgram == "(no program unit)"

\* What the program may start with: nothing, a program unit that is not a
\* module (""), or a module of the given name.
FrontModules ==
  {EmptyProgram, "", "__fortran_builtins", "__ppc_types", "__ppc_intrinsics", "mma", "m"}

PerformBuiltinRequests_PPCAlways ==
  IF frontModule = EmptyProgram THEN <<>>
  ELSE IF frontModule \in {"__fortran_builtins", "__ppc_types"} THEN <<>>
  ELSE IF frontModule \in {"__ppc_intrinsics", "mma"} THEN <<"__ppc_types">>
  ELSE <<"__fortran_builtins", "__ppc_types", "__ppc_intrinsics">>

\* Lines 613-641: the built-in modules Perform asks for, in order.
PerformBuiltinRequests ==
  IF frontModule = EmptyProgram THEN <<>>
  ELSE IF frontModule \in {"__fortran_builtins", "__ppc_types"} THEN <<>>
  ELSE IF frontModule \in {"__ppc_intrinsics", "mma"} THEN <<"__ppc_types">>
  ELSE <<"__fortran_builtins">>
         \o (IF isPPC THEN <<"__ppc_types", "__ppc_intrinsics">> ELSE <<>>)

\* The member that caches a built-in module.
CachedScope(name) ==
  CASE name = "__fortran_builtins" -> builtinsScope
    [] name = "__ppc_types" -> ppcBuiltinTypesScope
    [] name = "__ppc_intrinsics" -> ppcBuiltinsScope

\* UseFortranBuiltinsModule, UsePPCBuiltinTypesModule, UsePPCBuiltinsModule:
\* the module is read if the cached scope is null.
NeedsRead(name) == CachedScope(name) = <<>>

\* The stages of Perform, lines 642-651, in the order of the && chain.
PerformStages ==
  <<"ValidateLabels", "CanonicalizeDo", "CanonicalizeAcc", "CanonicalizeOmp",
    "CanonicalizeCUDA", "PerformStatementSemantics", "CanonicalizeDirectives",
    "WriteAll">>

StageIndex(stage) == CHOOSE i \in 1..Len(PerformStages) : PerformStages[i] = stage

AfterStage_IgnoreFailure(stage, ok) ==
  IF StageIndex(stage) = Len(PerformStages) THEN "done"
  ELSE PerformStages[StageIndex(stage) + 1]

\* The && chain: after a stage that failed, or after the last one, Perform
\* returns; otherwise the next stage is started.
AfterStage(stage, ok) ==
  IF ~ok \/ StageIndex(stage) = Len(PerformStages) THEN "done"
  ELSE PerformStages[StageIndex(stage) + 1]

\* The steps of PerformStatementSemantics, lines 208-230.
SemanticsSteps ==
  <<"ResolveNames", "RewriteParseTree", "ComputeOffsets", "CheckDeclarations",
    "StatementSemanticsPass1", "StatementSemanticsPass2", "AccStructureChecker",
    "OmpStructureChecker", "CUDAChecker", "WarnUndefinedFunctionResult",
    "CompileDataInitializationsIntoInitializers">>

StepIndex(step) == CHOOSE i \in 1..Len(SemanticsSteps) : SemanticsSteps[i] = step

AfterStep(step) ==
  IF StepIndex(step) = Len(SemanticsSteps) THEN "return"
  ELSE SemanticsSteps[StepIndex(step) + 1]

StepRuns_Ungated(step) == TRUE

\* Whether a step of PerformStatementSemantics is executed, lines 215-229.
StepRuns(step) ==
  CASE step = "AccStructureChecker" -> "OpenACC" \in features
    [] step = "OmpStructureChecker" -> "OpenMP" \in features
    [] step = "CUDAChecker" -> "CUDA" \in features
    [] step = "WarnUndefinedFunctionResult" -> ~MessagesAnyFatalError(messages, FALSE)
    [] step = "CompileDataInitializationsIntoInitializers" -> ~AnyFatalError
    [] OTHER -> TRUE

\* What a step may report: the descent for undefined function results only
\* warns, the compilation of the data initializations may report errors.
StepReports(step) ==
  IF step = "WarnUndefinedFunctionResult" THEN {"none", "warning"}
  ELSE ExternalReports

\* The function whose result the descent finds never defined.
UndefinedFunction == "f"

\* Lines 184-185: the warning of the descent, at the name of the function.
UndefinedFunctionResultMessage ==
  Message("warning", "Function result is never defined", UndefinedFunction, "-", <<>>)

\* The message list after a step that reported report.
StepReported(step, msgs, report) ==
  IF step = "WarnUndefinedFunctionResult" /\ report = "warning"
  THEN Append(msgs, UndefinedFunctionResultMessage)
  ELSE Reported(msgs, report)

UnchangedByPerform ==
  UNCHANGED <<aborted, commonVars, scopeVars, indexVars, visitVars, contextVars,
              frontModule, isPPC, features, warningsAreErrors>>

\* Lines 613-641: the implicit use of the built-in modules.
PerformBegin ==
  /\ pc = "begin"
  /\ \E got \in [1..Len(SelectSeq(PerformBuiltinRequests, NeedsRead)) -> BOOLEAN] :
       LET requests == SelectSeq(PerformBuiltinRequests, NeedsRead)
           scopeOf(name) ==
             IF \E i \in 1..Len(requests) : requests[i] = name /\ got[i]
             THEN <<name>> ELSE CachedScope(name)
       IN /\ moduleReads' = moduleReads \o requests
          /\ builtinsScope' = scopeOf("__fortran_builtins")
          /\ ppcBuiltinTypesScope' = scopeOf("__ppc_types")
          /\ ppcBuiltinsScope' = scopeOf("__ppc_intrinsics")
  /\ pc' = PerformStages[1]
  /\ UNCHANGED <<messages, performLog, stageReturns, runReports, performResult, cudaBuiltinsScope,
                 cudaDeviceScope>>
  /\ UnchangedByPerform

\* A stage of Perform other than PerformStatementSemantics.
ExternalStage(stage, ok, report) ==
  /\ pc = stage
  /\ stage # "PerformStatementSemantics"
  /\ performLog' = Append(performLog, stage)
  /\ messages' = Reported(messages, report)
  /\ stageReturns' = Append(stageReturns, [stage |-> stage, ok |-> ok])
  /\ pc' = AfterStage(stage, ok)
  /\ performResult' = IF AfterStage(stage, ok) = "done" THEN <<ok>> ELSE performResult
  /\ UNCHANGED <<builtinVars, runReports>>
  /\ UnchangedByPerform

\* Line 647: PerformStatementSemantics is called.
EnterStatementSemantics ==
  /\ pc = "PerformStatementSemantics"
  /\ performLog' = Append(performLog, pc)
  /\ pc' = SemanticsSteps[1]
  /\ runReports' = {}
  /\ UNCHANGED <<messages, stageReturns, performResult, builtinVars>>
  /\ UnchangedByPerform

\* A step of PerformStatementSemantics, executed or skipped.
SemanticsStep(step, report) ==
  /\ pc = step
  /\ IF StepRuns(step)
     THEN /\ performLog' = Append(performLog, step)
          /\ messages' = StepReported(step, messages, report)
          /\ runReports' = runReports \cup ({report} \ {"none"})
     ELSE /\ report = "none"
          /\ UNCHANGED <<performLog, messages, runReports>>
  /\ pc' = AfterStep(step)
  /\ UNCHANGED <<stageReturns, performResult, builtinVars>>
  /\ UnchangedByPerform

\* Line 230, and the && chain after PerformStatementSemantics has returned.
ReturnStatementSemantics ==
  /\ pc = "return"
  /\ LET ok == ~AnyFatalError
     IN /\ stageReturns' =
             Append(stageReturns, [stage |-> "PerformStatementSemantics", ok |-> ok])
        /\ pc' = AfterStage("PerformStatementSemantics", ok)
        /\ performResult' = IF ok THEN performResult ELSE <<FALSE>>
  /\ UNCHANGED <<messages, performLog, runReports, builtinVars>>
  /\ UnchangedByPerform

-----------------------------------------------------------------------------
(* SemanticsVisitor: a traversal composed of the checkers A and B.  The    *)
(* parse tree is produced as it is walked: a node is entered with Pre, its *)
(* children are walked, and it is left with Post.                          *)

MaxNodes == 4
MaxDepth == 4

Checkers == <<"A", "B">>

\* The node types of the trees walked.  A Program is the root; an EntryStmt,
\* an AssignStmt and an AssignedGotoStmt are walked as leaves.
NodeTypes ==
  {"Program", "Statement", "UnlabeledStatement", "DoConstruct", "EntryStmt",
   "AssignStmt", "AssignedGotoStmt"}

LeafTypes == {"EntryStmt", "AssignStmt", "AssignedGotoStmt"}

\* The node types that hold the name of an ASSIGN variable.
AssignTypes == {"AssignStmt", "AssignedGotoStmt"}

\* The names in ASSIGN and assigned GO TO statements: k is a default integer
\* scalar variable, v is a REAL variable, u was left unresolved.
AssignNames == {"k", "v", "u"}

NoName == "-"

\* The names a node of the type may hold.
NodeNames(type) == IF type \in AssignTypes THEN AssignNames ELSE {NoName}

\* parser::Name::symbol of the name of an ASSIGN variable, none when null.
AssignSymbol(name) == IF name = "u" THEN <<>> ELSE <<name>>

\* IsVariableName(symbol), rank 0, and a type that is the default INTEGER.
IsDefaultIntegerScalarVariable(symbol) == symbol = "k"

\* SemanticsContext::HasError(const Symbol *), lines 381-386.
HasError(symbol) == symbol = <<>> \/ symbol[1] \in errorSymbols

IsStatement(type) == type \in {"Statement", "UnlabeledStatement"}

\* common::HasMember<const N *, ConstructNode>
IsConstruct(type) == type = "DoConstruct"

\* The checkers that define Enter, and Leave, for a node type.  No two
\* checkers have the same Enter or Leave function, lines 71-72.  B's Leave
\* for an EntryStmt, an AssignStmt and an AssignedGotoStmt is MiscChecker's.
EnterHandlers(type) ==
  CASE type = "Statement" -> {"A"}
    [] type = "UnlabeledStatement" -> {"B"}
    [] type = "DoConstruct" -> {"A"}
    [] OTHER -> {}

LeaveHandlers(type) ==
  CASE type = "Statement" -> {"B"}
    [] type = "UnlabeledStatement" -> {"A"}
    [] type = "EntryStmt" -> {"B"}
    [] type \in AssignTypes -> {"B"}
    [] OTHER -> {}

\* Enter(node) and Leave(node): the call resolves to the function of the
\* checker that defines it for the node's type, else to BaseChecker's,
\* which does nothing.
Dispatch(handlers) == SelectSeq(Checkers, LAMBDA c : c \in handlers)

\* The source of the node entered as the id-th.
NodeSource(id) == <<"N1", "N2", "N3", "N4", "N5", "N6">>[id]

Event(phase, node, ran, at, stack) ==
  [phase |-> phase, id |-> node.id, type |-> node.type, ran |-> ran, location |-> at,
   constructStack |-> stack, nested |-> node.nested]

UnchangedByWalk ==
  UNCHANGED <<commonVars, scopeVars, indexVars, builtinVars, performVars, contextVars>>

\* Pre(node), lines 84-90 and 98-107.
Pre(type, name) ==
  /\ walkResult = <<>>
  /\ ~aborted
  /\ nodeCount < MaxNodes
  /\ Len(walkStack) < MaxDepth
  /\ IF walkStack = <<>> THEN nodeCount = 0 /\ type = "Program"
     ELSE type # "Program" /\ Last(walkStack).type \notin LeafTypes
  /\ name \in NodeNames(type)
  /\ LET node == [id |-> nodeCount + 1, type |-> type, nested |-> FALSE, name |-> name]
         pushed == IF IsConstruct(type) THEN Append(constructStack, node.id)
                   ELSE constructStack
         set == IF IsStatement(type) THEN <<NodeSource(node.id)>> ELSE location
         open == IF IsStatement(type)
                 THEN [i \in 1..Len(walkStack) |-> [walkStack[i] EXCEPT !.nested = TRUE]]
                 ELSE walkStack
     IN /\ constructStack' = pushed
        /\ location' = set
        /\ lastEvent' = <<Event("Enter", node, Dispatch(EnterHandlers(type)), set, pushed)>>
        /\ walkStack' = Append(open, node)
        /\ nodeCount' = node.id
  /\ UNCHANGED <<messages, aborted, walkResult, walkStart>>
  /\ UnchangedByWalk

\* MiscChecker::Leave(const parser::EntryStmt &), lines 129-133.  Say
\* without a source reports at the current location, which it requires.
LeaveEntryStmt ==
  IF constructStack = <<>> THEN [messages |-> messages, aborted |-> FALSE]
  ELSE IF location = <<>> THEN [messages |-> messages, aborted |-> TRUE]
  ELSE [messages |->
          Append(messages,
                 Message("error", "ENTRY may not appear in an executable construct",
                         location[1], "-", <<>>)),
        aborted |-> FALSE]

\* MiscChecker::CheckAssignGotoName, lines 141-157, reached from
\* MiscChecker::Leave(const parser::AssignStmt &) and
\* MiscChecker::Leave(const parser::AssignedGotoStmt &), lines 134-139: the
\* message list after the check of the name.
CheckAssignGotoName(name) ==
  IF HasError(AssignSymbol(name)) THEN messages
  ELSE IF ~IsDefaultIntegerScalarVariable(AssignSymbol(name)[1])
  THEN Append(messages,
              Message("error", "'%s' must be a default integer scalar variable",
                      name, name,
                      <<Note(AssignSymbol(name)[1], "Declaration of '%s'",
                             AssignSymbol(name)[1])>>))
  ELSE messages

PopConstruct_Keep(stack) == [stack |-> stack, ok |-> TRUE]

\* SemanticsContext::PopConstruct, lines 467-470.
PopConstruct(stack) ==
  IF stack = <<>> THEN [stack |-> stack, ok |-> FALSE]
  ELSE [stack |-> SubSeq(stack, 1, Len(stack) - 1), ok |-> TRUE]

\* The location after Post: a statement's Post clears it, lines 108-115.
Cleared(type) == IF IsStatement(type) THEN <<>> ELSE location

\* Post(node), lines 91-96 and 108-115.
Post ==
  /\ walkResult = <<>>
  /\ ~aborted
  /\ walkStack # <<>>
  /\ LET node == Last(walkStack)
         left == IF node.type = "EntryStmt" THEN LeaveEntryStmt
                 ELSE IF node.type \in AssignTypes
                 THEN [messages |-> CheckAssignGotoName(node.name), aborted |-> FALSE]
                 ELSE [messages |-> messages, aborted |-> FALSE]
         popped == IF IsConstruct(node.type) /\ ~left.aborted
                   THEN PopConstruct(constructStack)
                   ELSE [stack |-> constructStack, ok |-> TRUE]
     IN /\ lastEvent' = <<Event("Leave", node, Dispatch(LeaveHandlers(node.type)),
                                location, constructStack)>>
        /\ messages' = left.messages
        /\ aborted' = (left.aborted \/ ~popped.ok)
        /\ constructStack' = popped.stack
        /\ location' = IF left.aborted THEN location ELSE Cleared(node.type)
        /\ walkStack' = SubSeq(walkStack, 1, Len(walkStack) - 1)
  /\ UNCHANGED <<nodeCount, walkResult, walkStart>>
  /\ UnchangedByWalk

\* Walk, lines 117-120: the result once the program has been walked.
Walk ==
  /\ walkResult = <<>>
  /\ ~aborted
  /\ walkStack = <<>>
  /\ nodeCount > 0
  /\ walkResult' = <<~AnyFatalError>>
  /\ UNCHANGED <<messages, aborted, walkStack, nodeCount, location, constructStack,
                 lastEvent, walkStart>>
  /\ UnchangedByWalk

-----------------------------------------------------------------------------
(* The symbols marked as erroneous: SetError and CheckError.               *)

MaxReports == 2

Severities == {"error", "warning", "portability"}

\* A diagnostic is reported to the message list.
Say(sev) ==
  /\ ~aborted
  /\ Len(messages) < MaxReports
  /\ messages' = Append(messages, Message(sev, "diagnostic", "-", "-", <<>>))
  /\ UNCHANGED <<aborted, warningsAreErrors, errorVars, tempVars>>

CheckError_Skip(symbol) == TRUE

\* SemanticsContext::CheckError: whether it returns; it dies if no fatal
\* error has been reported.
CheckError(symbol) == AnyFatalError

\* SemanticsContext::SetError
SetError(symbol, value) ==
  /\ ~aborted
  /\ lastSetError' = <<[symbol |-> symbol, value |-> value]>>
  /\ IF value
     THEN IF CheckError(symbol)
          THEN /\ errorSymbols' = errorSymbols \cup {symbol}
               /\ UNCHANGED aborted
          ELSE /\ aborted' = TRUE
               /\ UNCHANGED errorSymbols
     ELSE UNCHANGED <<errorSymbols, aborted>>
  /\ UNCHANGED <<messages, warningsAreErrors, tempVars>>

-----------------------------------------------------------------------------
(* The built-in modules, read when they are first asked for.               *)

MaxReads == 3

\* The parts that a request for a built-in module leaves alone.
UnchangedByBuiltin ==
  UNCHANGED <<messages, commonVars, scopeVars, indexVars, visitVars, contextVars,
              performVars>>

\* The built-in modules that a member of the context caches.
BuiltinModules ==
  {"__fortran_builtins", "__ppc_types", "__ppc_intrinsics", "__cuda_builtins", "cudadevice"}

\* SemanticsContext::GetBuiltinModule: the module is read; the reader
\* returns its scope, or null.
GetBuiltinModule(name, got) == IF got THEN <<name>> ELSE <<>>

\* A call of the public GetBuiltinModule from outside the context: the
\* module is read whether or not a member caches it, the scope or null goes
\* to the caller, and no member is set.
GetBuiltinModuleCall(name) ==
  /\ ~aborted
  /\ Len(moduleReads) < MaxReads
  /\ moduleReads' = Append(moduleReads, name)
  /\ UNCHANGED <<aborted, builtinsScope, ppcBuiltinTypesScope, ppcBuiltinsScope,
                 cudaBuiltinsScope, cudaDeviceScope>>
  /\ UnchangedByBuiltin

\* SemanticsContext::UseFortranBuiltinsModule
UseFortranBuiltinsModule(got) ==
  /\ ~aborted
  /\ IF builtinsScope = <<>>
     THEN /\ Len(moduleReads) < MaxReads
          /\ moduleReads' = Append(moduleReads, "__fortran_builtins")
          /\ builtinsScope' = GetBuiltinModule("__fortran_builtins", got)
     ELSE UNCHANGED <<moduleReads, builtinsScope>>
  /\ UNCHANGED <<aborted, ppcBuiltinTypesScope, ppcBuiltinsScope, cudaBuiltinsScope,
                 cudaDeviceScope>>
  /\ UnchangedByBuiltin

\* SemanticsContext::UsePPCBuiltinTypesModule
UsePPCBuiltinTypesModule(got) ==
  /\ ~aborted
  /\ IF ppcBuiltinTypesScope = <<>>
     THEN /\ Len(moduleReads) < MaxReads
          /\ moduleReads' = Append(moduleReads, "__ppc_types")
          /\ ppcBuiltinTypesScope' = GetBuiltinModule("__ppc_types", got)
     ELSE UNCHANGED <<moduleReads, ppcBuiltinTypesScope>>
  /\ UNCHANGED <<aborted, builtinsScope, ppcBuiltinsScope, cudaBuiltinsScope,
                 cudaDeviceScope>>
  /\ UnchangedByBuiltin

\* SemanticsContext::UsePPCBuiltinsModule
UsePPCBuiltinsModule(got) ==
  /\ ~aborted
  /\ IF ppcBuiltinsScope = <<>>
     THEN /\ Len(moduleReads) < MaxReads
          /\ moduleReads' = Append(moduleReads, "__ppc_intrinsics")
          /\ ppcBuiltinsScope' = GetBuiltinModule("__ppc_intrinsics", got)
     ELSE UNCHANGED <<moduleReads, ppcBuiltinsScope>>
  /\ UNCHANGED <<aborted, builtinsScope, ppcBuiltinTypesScope, cudaBuiltinsScope,
                 cudaDeviceScope>>
  /\ UnchangedByBuiltin

\* The value of a std::optional<const Scope *> that has been assigned what
\* the reader returned: the scope, or a null pointer.
Assigned(scope) == IF scope = <<>> THEN <<"nullptr">> ELSE scope

\* SemanticsContext::GetCUDABuiltinsScope: a null result of the reader
\* fails the CHECK.
GetCUDABuiltinsScope(got) ==
  /\ ~aborted
  /\ IF cudaBuiltinsScope = <<>>
     THEN /\ Len(moduleReads) < MaxReads
          /\ moduleReads' = Append(moduleReads, "__cuda_builtins")
          /\ cudaBuiltinsScope' = Assigned(GetBuiltinModule("__cuda_builtins", got))
          /\ aborted' = ~got
     ELSE UNCHANGED <<moduleReads, cudaBuiltinsScope, aborted>>
  /\ UNCHANGED <<builtinsScope, ppcBuiltinTypesScope, ppcBuiltinsScope, cudaDeviceScope>>
  /\ UnchangedByBuiltin

\* SemanticsContext::GetCUDADeviceScope
GetCUDADeviceScope(got) ==
  /\ ~aborted
  /\ IF cudaDeviceScope = <<>>
     THEN /\ Len(moduleReads) < MaxReads
          /\ moduleReads' = Append(moduleReads, "cudadevice")
          /\ cudaDeviceScope' = Assigned(GetBuiltinModule("cudadevice", got))
          /\ aborted' = ~got
     ELSE UNCHANGED <<moduleReads, cudaDeviceScope, aborted>>
  /\ UNCHANGED <<builtinsScope, ppcBuiltinTypesScope, ppcBuiltinsScope, cudaBuiltinsScope>>
  /\ UnchangedByBuiltin

-----------------------------------------------------------------------------
(* Temporary names: SaveTempName, GetTempName, IsTempName.                 *)

MaxPool == 3

\* A std::string, held as its first five characters and the rest.
String(head, tail) == [head |-> head, tail |-> tail]

\* std::to_string of a pool size.
to_string(n) == <<"0", "1", "2", "3", "4", "5", "6", "7", "8", "9">>[n + 1]

\* The strings that callers save: a name of the form GetTempName
\* synthesizes, the bare prefix, and a name of another form.
SavedStrings == {String(".F18.", "1"), String(".F18.", ""), String("x", "")}

\* The strings that GetTempName synthesizes.
SynthesizedStrings == {String(".F18.", to_string(n)) : n \in 0..MaxPool}

\* The scopes that temporary names are asked for.
TempScopes == {"t1", "t2"}

\* std::less<std::string> on the strings that occur: the position of a string
\* in the order of the set.
HeadRank(head) == IF head = ".F18." THEN 1 ELSE 2

TailRank(tail) ==
  IF tail = "" THEN 0
  ELSE 1 + CHOOSE n \in 0..9 : to_string(n) = tail

StringLess(x, y) ==
  \/ HeadRank(x.head) < HeadRank(y.head)
  \/ HeadRank(x.head) = HeadRank(y.head) /\ TailRank(x.tail) < TailRank(y.tail)

\* SemanticsContext::IsTempName: longer than five characters, the first five
\* being the prefix.
IsTempName(name) == name.tail # "" /\ name.head = ".F18."

UnchangedByTemp ==
  UNCHANGED <<messages, aborted, commonVars, scopeVars, indexVars, visitVars, errorVars,
              builtinVars, performVars>>

\* SemanticsContext::SaveTempName: std::set::emplace.
SaveTempName(name) ==
  /\ name \in tempNames \/ Cardinality(tempNames) < MaxPool
  /\ tempNames' = tempNames \cup {name}
  /\ UNCHANGED <<scopeNames, synthesized, lastTemp>>
  /\ UnchangedByTemp

\* The caller declares a name it was given in a scope.
DeclareTempName(scope, name) ==
  /\ name \in tempNames
  /\ name \notin scopeNames[scope]
  /\ scopeNames' = [scopeNames EXCEPT ![scope] = @ \cup {name}]
  /\ UNCHANGED <<tempNames, synthesized, lastTemp>>
  /\ UnchangedByTemp

\* Lines 548-555: the pooled temporary names that the scope does not have.
PooledCandidates(scope) ==
  {name \in tempNames : IsTempName(name) /\ name \notin scopeNames[scope]}

\* The first of a set of strings in the order of the std::set.
FirstString(names) ==
  CHOOSE name \in names : \A other \in names \ {name} : StringLess(name, other)

\* SemanticsContext::GetTempName
GetTempName(scope) ==
  /\ Cardinality(tempNames) < MaxPool
  /\ LET pooled == PooledCandidates(scope)
         fresh == String(".F18.", to_string(Cardinality(tempNames)))
         name == IF pooled # {} THEN FirstString(pooled) ELSE fresh
     IN /\ tempNames' = IF pooled # {} THEN tempNames ELSE tempNames \cup {fresh}
        /\ synthesized' = IF pooled # {} THEN synthesized
                          ELSE synthesized \cup {Cardinality(tempNames)}
        /\ lastTemp' = <<[scope |-> scope, name |-> name, pooled |-> pooled # {},
                          declared |-> name \in scopeNames[scope],
                          saved |-> name \in tempNames,
                          synthesized |-> synthesized]>>
  /\ UNCHANGED scopeNames
  /\ UnchangedByTemp

\* The state of a part of the context that a specification leaves alone.
IdleCommon ==
  /\ symSize = [c \in CommonSyms |-> 0]
  /\ symInit = [c \in CommonSyms |-> FALSE]
  /\ shouldWarn = {}
  /\ hasCommonBlockMap = FALSE
  /\ commonBlocks = <<>>
  /\ mergeLog = <<>>

IdleScope ==
  /\ scopeIndex = <<>>
  /\ sourceRange = [s \in Scopes |-> EmptyBlock]
  /\ lastExtend = <<>>
  /\ lastFind = <<>>
  /\ lastUpdate = <<>>

IdleIndex ==
  /\ activeIndexVars = [v \in {"i", "j"} |-> <<>>]
  /\ holder = [v \in {"i", "j"} |-> <<>>]
  /\ lastCall = [op |-> "-", name |-> "-", kind |-> "-"]
  /\ nesting = <<>>

IdleBuiltin ==
  /\ builtinsScope = <<>>
  /\ ppcBuiltinTypesScope = <<>>
  /\ ppcBuiltinsScope = <<>>
  /\ cudaBuiltinsScope = <<>>
  /\ cudaDeviceScope = <<>>
  /\ moduleReads = <<>>

IdlePerform ==
  /\ frontModule = ""
  /\ isPPC = FALSE
  /\ features = {}
  /\ warningsAreErrors = FALSE
  /\ IdleBuiltin
  /\ pc = "begin"
  /\ performLog = <<>>
  /\ stageReturns = <<>>
  /\ runReports = {}
  /\ performResult = <<>>

IdleWalk ==
  /\ walkStack = <<>>
  /\ nodeCount = 0
  /\ location = <<>>
  /\ constructStack = <<>>
  /\ lastEvent = <<>>
  /\ walkResult = <<>>

IdleVisit ==
  /\ IdleWalk
  /\ walkStart = 0

IdleContext ==
  /\ errorSymbols = {}
  /\ lastSetError = <<>>
  /\ tempNames = {}
  /\ scopeNames = [scope \in TempScopes |-> {}]
  /\ synthesized = {}
  /\ lastTemp = <<>>

InitCommon ==
  /\ IdleScope
  /\ IdleIndex
  /\ IdlePerform
  /\ IdleVisit
  /\ IdleContext
  /\ aborted = FALSE
  /\ symSize \in [CommonSyms -> 0..MaxSize]
  /\ symInit \in [CommonSyms -> BOOLEAN]
  /\ shouldWarn \in {{}, {"DistinctCommonSizes"}}
  /\ hasCommonBlockMap = FALSE
  /\ commonBlocks = <<>>
  /\ mergeLog = <<>>
  /\ messages = <<>>

NextCommon ==
  \E common \in CommonSyms : MapCommonBlockAndCheckConflicts(common)

SpecCommon == InitCommon /\ [][NextCommon]_vars

InitScope ==
  /\ IdleCommon
  /\ IdleScope
  /\ IdleIndex
  /\ IdlePerform
  /\ IdleVisit
  /\ IdleContext
  /\ aborted = FALSE
  /\ messages = <<>>

NextScope ==
  \/ \E s \in Scopes, source \in CharBlocks : AddSourceRange(s, source)
  \/ \E source \in CharBlocks : FindScope(source)

SpecScope == InitScope /\ [][NextScope]_vars

\* The scope index under any caller of UpdateScopeIndex: Scope::AddSourceRange
\* and direct calls.
NextUpdate ==
  \/ \E s \in UpdatedScopes, source \in CharBlocks :
       AddSourceRange(s, source) /\ Len(scopeIndex') <= MaxEntries
  \/ \E s \in UpdatedScopes, newSource \in PassedSources :
       UpdateScopeIndexCall(s, newSource)

SpecUpdate == InitScope /\ [][NextUpdate]_vars

InitIndex ==
  /\ IdleScope
  /\ IdleIndex
  /\ IdlePerform
  /\ IdleVisit
  /\ IdleContext
  /\ symSize = [c \in CommonSyms |-> 0]
  /\ symInit = [c \in CommonSyms |-> FALSE]
  /\ shouldWarn \in {{}, {"IndexVarRedefinition"}}
  /\ hasCommonBlockMap = FALSE
  /\ commonBlocks = <<>>
  /\ mergeLog = <<>>
  /\ aborted = FALSE
  /\ messages = <<>>

NextIndex ==
  \/ \E name \in Names, kind \in IndexVarKind : ActivateIndexVar(name, kind)
  \/ \E name \in Names : DeactivateIndexVar(name)
  \/ \E name \in Names : CheckIndexVarRedefine(name)
  \/ \E name \in Names : WarnIndexVarRedefine(name)

SpecIndex == InitIndex /\ [][NextIndex]_vars

NextNesting ==
  \/ \E name \in Names, kind \in IndexVarKind : EnterIndexConstruct(name, kind)
  \/ LeaveIndexConstruct

SpecNesting == InitIndex /\ [][NextNesting]_vars

InitPerform ==
  /\ IdleCommon
  /\ IdleScope
  /\ IdleIndex
  /\ IdleVisit
  /\ IdleContext
  /\ aborted = FALSE
  /\ messages = <<>>
  /\ frontModule \in FrontModules
  /\ isPPC \in BOOLEAN
  /\ features \in SUBSET {"OpenACC", "OpenMP", "CUDA"}
  /\ warningsAreErrors \in BOOLEAN
  /\ IdleBuiltin
  /\ pc = "begin"
  /\ performLog = <<>>
  /\ stageReturns = <<>>
  /\ runReports = {}
  /\ performResult = <<>>

NextPerform ==
  \/ PerformBegin
  \/ \E i \in 1..Len(PerformStages), ok \in BOOLEAN, report \in ExternalReports :
       ExternalStage(PerformStages[i], ok, report)
  \/ EnterStatementSemantics
  \/ \E i \in 1..Len(SemanticsSteps) :
       \E report \in StepReports(SemanticsSteps[i]) :
         SemanticsStep(SemanticsSteps[i], report)
  \/ ReturnStatementSemantics

SpecPerform == InitPerform /\ [][NextPerform]_vars

\* What the message list may hold when a walk starts: nothing, or a
\* diagnostic of an earlier step.
StartMessages ==
  {<<>>} \cup {<<Message(sev, "earlier", "-", "-", <<>>)>> : sev \in {"error", "warning"}}

\* The symbols that may be marked as erroneous when a walk starts: SetError
\* marks a symbol only once a fatal error has been reported.
StartErrorSymbols(msgs, asErrors) ==
  IF MessagesAnyFatalError(msgs, asErrors) THEN {{}, {"v"}} ELSE {{}}

InitVisit ==
  /\ IdleCommon
  /\ IdleScope
  /\ IdleIndex
  /\ IdleWalk
  /\ lastSetError = <<>>
  /\ tempNames = {}
  /\ scopeNames = [scope \in TempScopes |-> {}]
  /\ synthesized = {}
  /\ lastTemp = <<>>
  /\ aborted = FALSE
  /\ messages \in StartMessages
  /\ walkStart = Len(messages)
  /\ frontModule = ""
  /\ isPPC = FALSE
  /\ features = {}
  /\ warningsAreErrors \in BOOLEAN
  /\ errorSymbols \in StartErrorSymbols(messages, warningsAreErrors)
  /\ IdleBuiltin
  /\ pc = "begin"
  /\ performLog = <<>>
  /\ stageReturns = <<>>
  /\ runReports = {}
  /\ performResult = <<>>

NextVisit ==
  \/ \E type \in NodeTypes, name \in AssignNames \cup {NoName} : Pre(type, name)
  \/ Post
  \/ Walk

SpecVisit == InitVisit /\ [][NextVisit]_vars

\* The parts that the specifications of the context's own bookkeeping leave
\* alone.
IdleOthers ==
  /\ IdleCommon
  /\ IdleScope
  /\ IdleIndex
  /\ IdleVisit
  /\ frontModule = ""
  /\ isPPC = FALSE
  /\ features = {}
  /\ pc = "begin"
  /\ performLog = <<>>
  /\ stageReturns = <<>>
  /\ runReports = {}
  /\ performResult = <<>>

UnchangedOthers ==
  UNCHANGED <<commonVars, scopeVars, indexVars, visitVars, frontModule, isPPC, features,
              pc, performLog, stageReturns, runReports, performResult>>

InitError ==
  /\ IdleOthers
  /\ IdleContext
  /\ aborted = FALSE
  /\ messages = <<>>
  /\ warningsAreErrors \in BOOLEAN
  /\ IdleBuiltin

NextError ==
  \/ \E sev \in Severities : Say(sev) /\ UNCHANGED builtinVars /\ UnchangedOthers
  \/ \E symbol \in Symbols, value \in BOOLEAN :
       SetError(symbol, value) /\ UNCHANGED builtinVars /\ UnchangedOthers

SpecError == InitError /\ [][NextError]_vars

InitBuiltin ==
  /\ IdleOthers
  /\ IdleContext
  /\ IdleBuiltin
  /\ aborted = FALSE
  /\ messages = <<>>
  /\ warningsAreErrors = FALSE

NextBuiltin ==
  \/ \E got \in BOOLEAN : UseFortranBuiltinsModule(got)
  \/ \E got \in BOOLEAN : UsePPCBuiltinTypesModule(got)
  \/ \E got \in BOOLEAN : UsePPCBuiltinsModule(got)
  \/ \E got \in BOOLEAN : GetCUDABuiltinsScope(got)
  \/ \E got \in BOOLEAN : GetCUDADeviceScope(got)
  \/ \E name \in BuiltinModules : GetBuiltinModuleCall(name)

SpecBuiltin == InitBuiltin /\ [][NextBuiltin]_vars

InitTemp ==
  /\ IdleOthers
  /\ IdleContext
  /\ IdleBuiltin
  /\ aborted = FALSE
  /\ messages = <<>>
  /\ warningsAreErrors = FALSE

NextTemp ==
  \/ \E name \in SavedStrings : SaveTempName(name)
  \/ \E scope \in TempScopes, name \in SavedStrings \cup SynthesizedStrings :
       DeclareTempName(scope, name)
  \/ \E scope \in TempScopes : GetTempName(scope)

SpecTemp == InitTemp /\ [][NextTemp]_vars

-----------------------------------------------------------------------------
(* Properties of the COMMON block merge.                                   *)

ObjectNames == {LinkNames[i] : i \in 1..Len(LinkNames)}

\* The calls so far whose symbol goes by object name l.
AppearancesOf(l) ==
  {i \in 1..Len(mergeLog) : GetCommonBlockObjectName(mergeLog[i]) = l}

\* The entries of GetCommonBlocks whose symbol goes by object name l.
EntriesOf(l) ==
  {i \in 1..Len(GetCommonBlocks) :
     GetCommonBlockObjectName(GetCommonBlocks[i][1]) = l}

MultipleInitErrors ==
  {i \in 1..Len(messages) :
     messages[i].sev = "error"
     /\ messages[i].text = "Multiple initialization of COMMON block"}

\* C1: after any non-empty sequence of merges of symbols that share an
\* object name, GetCommonBlocks holds exactly one entry for that name, and
\* its size is the largest size among the merged appearances, whatever their
\* order and whichever of them are initialized or raised an error.
C1_BiggestSizeWins ==
  \A l \in ObjectNames :
    AppearancesOf(l) # {} =>
      /\ Cardinality(EntriesOf(l)) = 1
      /\ \A i \in EntriesOf(l) :
           GetCommonBlocks[i][2] =
             SetMax({symSize[mergeLog[j]] : j \in AppearancesOf(l)})

\* Three appearances of one block, the largest in the middle, and a
\* multiple-initialization error among them.
C1_Witness ==
  /\ Len(mergeLog) = 3
  /\ \E l \in ObjectNames :
       /\ AppearancesOf(l) = {1, 2, 3}
       /\ \A i \in EntriesOf(l) : GetCommonBlocks[i][2] = symSize[mergeLog[2]]
  /\ symSize[mergeLog[1]] < symSize[mergeLog[2]]
  /\ symSize[mergeLog[3]] < symSize[mergeLog[2]]
  /\ MultipleInitErrors # {}

\* C2: merging two distinct symbols of one object name that both carry an
\* initialized member reports exactly one multiple-initialization error, on
\* the second merge, located at the second appearance's initialized member
\* with a note at the first appearance's initialized member; when at most
\* one of the two is initialized no such error is reported.
C2_MultipleInitialization ==
  /\ Len(mergeLog) <= 1 => MultipleInitErrors = {}
  /\ ( /\ Len(mergeLog) = 2
       /\ mergeLog[1] # mergeLog[2]
       /\ GetCommonBlockObjectName(mergeLog[1]) = GetCommonBlockObjectName(mergeLog[2]) )
     => IF symInit[mergeLog[1]] /\ symInit[mergeLog[2]]
        THEN /\ Cardinality(MultipleInitErrors) = 1
             /\ \A i \in MultipleInitErrors :
                  /\ messages[i].at = InitMember(mergeLog[2])
                  /\ Len(messages[i].attach) = 1
                  /\ messages[i].attach[1].at = InitMember(mergeLog[1])
        ELSE MultipleInitErrors = {}

C2_Witness ==
  /\ Len(mergeLog) = 2
  /\ mergeLog[1] # mergeLog[2]
  /\ GetCommonBlockObjectName(mergeLog[1]) = GetCommonBlockObjectName(mergeLog[2])
  /\ symInit[mergeLog[1]] /\ symInit[mergeLog[2]]
  /\ Cardinality(MultipleInitErrors) = 1
  /\ InitMember(mergeLog[1]) \notin {Objects(mergeLog[1])[k] : k \in 1..Len(Objects(mergeLog[1]))}

\* C7: GetCommonBlocks returns one pair per object name seen (none before the
\* first merge); the symbol of a pair is the initialization recorded for the
\* name, which is the first initialized appearance, or else the recorded
\* biggest appearance, which is the earliest of the largest ones; the size of
\* the pair is the size of the biggest appearance even when the symbol of the
\* pair is a smaller, initialized one.
C7_GetCommonBlocks ==
  /\ mergeLog = <<>> => GetCommonBlocks = <<>>
  /\ Len(GetCommonBlocks) =
       Cardinality({GetCommonBlockObjectName(mergeLog[i]) : i \in 1..Len(mergeLog)})
  /\ \A l \in ObjectNames :
       AppearancesOf(l) # {} =>
         LET apps     == AppearancesOf(l)
             biggest  == SetMax({symSize[mergeLog[j]] : j \in apps})
             inits    == {j \in apps : symInit[mergeLog[j]]}
             firstBig == mergeLog[SetMin({j \in apps : symSize[mergeLog[j]] = biggest})]
             info     == commonBlocks[l]
         IN /\ EntriesOf(l) # {}
            /\ \A i \in EntriesOf(l) :
                 /\ GetCommonBlocks[i][1] =
                      (IF info.initialization # <<>>
                       THEN info.initialization[1] ELSE info.biggestSize)
                 /\ GetCommonBlocks[i][2] = symSize[info.biggestSize]
                 /\ GetCommonBlocks[i][1] =
                      (IF inits # {} THEN mergeLog[SetMin(inits)] ELSE firstBig)
                 /\ GetCommonBlocks[i][2] = biggest

\* Both object names seen, and for one of them the pair holds an
\* initialized symbol that is smaller than the size of the pair.
C7_Witness ==
  /\ Len(GetCommonBlocks) = 2
  /\ \E i \in 1..Len(GetCommonBlocks) :
       /\ symInit[GetCommonBlocks[i][1]]
       /\ symSize[GetCommonBlocks[i][1]] < GetCommonBlocks[i][2]

\* The step taken was the merge of the appearance common.
Merged(common) == mergeLog' = Append(mergeLog, common)

\* The appearances of object name l so far that carry an initialized member.
InitializedAppearances(l) == {i \in AppearancesOf(l) : symInit[mergeLog[i]]}

\* The appearances of object name l so far that are as large as any.
LargestAppearances(l) ==
  {i \in AppearancesOf(l) :
     \A j \in AppearancesOf(l) : symSize[mergeLog[j]] <= symSize[mergeLog[i]]}

\* The representatives of every object name are those of the history: the
\* first initialized appearance, none when there is none, and the earliest
\* of the largest appearances.
RepresentativesOfHistory ==
  \A l \in ObjectNames :
    IF AppearancesOf(l) = {} THEN l \notin DOMAIN commonBlocks
    ELSE /\ l \in DOMAIN commonBlocks
         /\ commonBlocks[l].initialization =
              (IF InitializedAppearances(l) = {} THEN <<>>
               ELSE <<mergeLog[SetMin(InitializedAppearances(l))]>>)
         /\ commonBlocks[l].biggestSize = mergeLog[SetMin(LargestAppearances(l))]

\* One merge: a set initialization representative stays, and the size
\* representative changes only to a merged appearance that is strictly
\* larger, which it does also when that merge reported the error.
RepresentativesStable ==
  \A l \in DOMAIN commonBlocks :
    LET old    == commonBlocks[l]
        new    == commonBlocks'[l]
        common == Last(mergeLog')
    IN /\ old.initialization # <<>> => new.initialization = old.initialization
       /\ new.biggestSize # old.biggestSize =>
            /\ Merged(common)
            /\ GetCommonBlockObjectName(common) = l
            /\ new.biggestSize = common
            /\ symSize[common] > symSize[old.biggestSize]
       /\ (/\ Merged(common)
           /\ GetCommonBlockObjectName(common) = l
           /\ symSize[common] > symSize[old.biggestSize]) => new.biggestSize = common

\* C22: across any sequence of merges for one object name the initialization
\* representative, once set, is never replaced by a different symbol (it is
\* the first initialized appearance, also after a multiple-initialization
\* error); the size representative changes only when an appearance is
\* strictly larger, so the earliest of the equal-sized largest appearances
\* stays; an appearance that raises the error still takes part in the size
\* comparison.
C22_StableRepresentatives ==
  []RepresentativesOfHistory /\ [][RepresentativesStable]_vars

\* Three appearances of one object name: the second is initialized as the
\* first is, raised the error and became the size representative; the third
\* is the first symbol again, smaller than the second, and changed nothing.
C22_Witness ==
  /\ mergeLog = <<"c1", "c2", "c1">>
  /\ symInit["c1"] /\ symInit["c2"]
  /\ symSize["c1"] < symSize["c2"]
  /\ Cardinality(MultipleInitErrors) = 1
  /\ commonBlocks["x_"].initialization = <<"c1">>
  /\ commonBlocks["x_"].biggestSize = "c2"

-----------------------------------------------------------------------------
(* Properties of the scope index.                                          *)

\* The one-character source at position p.
Position(p) == CharBlock(p, 1)

Children(s) == {t \in Scopes : Parent(t) = <<s>>}

Indexed(s) == sourceRange[s].size # 0

\* The outcomes FindScope(source) can have in the current state.
FindScopeOutcomes(source) ==
  {FindScopeOutcome(scopeIndex, f) : f \in SearchScopeIndex(scopeIndex, source)}

StrictlyEncloses(x, y) == Contains(x, y) /\ x # y

\* The entries of the index whose key contains source.
Containing(source) ==
  {i \in 1..Len(scopeIndex) : Contains(scopeIndex[i].key, source)}

\* Any two indexed ranges are disjoint or one lies within the other.
ProperlyNested ==
  \A i, j \in 1..Len(scopeIndex) :
    LET x == scopeIndex[i].key
        y == scopeIndex[j].key
    IN \/ BlockEnd(x) <= y.begin \/ BlockEnd(y) <= x.begin
       \/ Contains(x, y) \/ Contains(y, x)

\* A scope that FindScope returned is one whose range contains the query.
FoundScopeContainsQuery ==
  (lastFind # <<>> /\ lastFind[1].result \in Scopes) =>
    /\ Contains(sourceRange[lastFind[1].result], lastFind[1].source)
    /\ \E i \in Containing(lastFind[1].source) :
         scopeIndex[i].scope = lastFind[1].result

\* The scopes a scope lies within.
Ancestors(s) == {ScopeChain(s)[k] : k \in 2..Len(ScopeChain(s))}

Descendants(s) == {t \in Scopes : s \in Ancestors(t)}

\* The ranges follow the nesting of the scopes: two scopes of which neither
\* lies within the other have disjoint ranges.  AddSourceRange keeps the
\* range of a scope within that of its parent.
WellNested ==
  \A s, t \in Scopes :
    (s # t /\ Indexed(s) /\ Indexed(t) /\ s \notin Ancestors(t) /\ t \notin Ancestors(s))
      => \/ BlockEnd(sourceRange[s]) <= sourceRange[t].begin
         \/ BlockEnd(sourceRange[t]) <= sourceRange[s].begin

\* C3 as stated, for scopes whose ranges follow their nesting: once a
\* scope's range [a,b) has been extended to [a,c), FindScope of every
\* position of [b,c) that lies in no child scope's range returns that scope,
\* and FindScope never returns a scope whose range does not contain the
\* query.
C3_AsStated ==
  /\ FoundScopeContainsQuery
  /\ (lastExtend # <<>> /\ ~aborted /\ WellNested) =>
       LET S == lastExtend[1].scope
       IN \A p \in BlockEnd(lastExtend[1].was)..(BlockEnd(sourceRange[S]) - 1) :
            (\A ch \in Children(S) : ~Contains(sourceRange[ch], Position(p)))
              => FindScopeOutcomes(Position(p)) = {S}

\* The last lookup returned the scope of a containing entry with the
\* greatest start and, among those, the smallest size.
FoundGreatestStart ==
  LET src == lastFind[1].source
  IN \E i \in Containing(src) :
       /\ scopeIndex[i].scope = lastFind[1].result
       /\ \A j \in Containing(src) :
            /\ scopeIndex[j].key.begin <= scopeIndex[i].key.begin
            /\ scopeIndex[j].key.begin = scopeIndex[i].key.begin
                 => scopeIndex[j].key.size >= scopeIndex[i].key.size

\* The last lookup returned the innermost scope whose range contains the
\* source: its range contains it and the range of no scope within it does.
FoundInnermost ==
  LET src == lastFind[1].source
      res == lastFind[1].result
  IN /\ Contains(sourceRange[res], src)
     /\ \A t \in Descendants(res) : ~(Indexed(t) /\ Contains(sourceRange[t], src))

\* C8 as stated: when the ranges are properly nested, FindScope returns the
\* innermost scope whose range contains the source, the scope of the
\* containing entry with the greatest start and, among equal starts, the
\* smallest size; when no indexed range contains the source (the index may
\* be empty) no scope is returned and the process is ended by the fatal
\* internal error of FindScope.
C8_AsStated ==
  lastFind # <<>> =>
    IF Containing(lastFind[1].source) = {}
    THEN lastFind[1].result = "die" /\ aborted
    ELSE /\ lastFind[1].result \in Scopes
         /\ ~aborted
         /\ FoundGreatestStart
         /\ WellNested => FoundInnermost

\* The entries the last lookup visited, none when upper_bound returned
\* begin() or the index was empty.
Scanned ==
  IF lastFind = <<>> \/ UpperBound(scopeIndex, lastFind[1].source) = 1 THEN <<>>
  ELSE ScanSequence(scopeIndex, lastFind[1].source)

\* C21 as stated: among entries that start at the same point, the backward
\* scan of a lookup meets the larger (outer) one before the smaller (inner)
\* one.
C21_AsStated ==
  \A a, b \in 1..Len(Scanned) :
    (/\ Scanned[a].key.begin = Scanned[b].key.begin
     /\ Scanned[a].key.size > Scanned[b].key.size) => a < b

\* C21, amended: the keys are in the order start ascending, size descending,
\* so among entries that start at the same point the larger (outer) one
\* comes first in the index, and the backward scan of a lookup meets the
\* smaller (inner) one before the larger (outer) one; the scan starts just
\* before the first key ordered after the query and visits every entry down
\* to the first one that contains the query.
C21_ScanInnerFirst ==
  /\ \A i, j \in 1..Len(scopeIndex) :
       (/\ scopeIndex[i].key.begin = scopeIndex[j].key.begin
        /\ scopeIndex[i].key.size > scopeIndex[j].key.size) => i < j
  /\ \A a, b \in 1..Len(Scanned) :
       (/\ Scanned[a].key.begin = Scanned[b].key.begin
        /\ Scanned[a].key.size > Scanned[b].key.size) => b < a
  /\ \A a \in 1..Len(Scanned) :
       Contains(Scanned[a].key, lastFind[1].source) => a = Len(Scanned)

\* A lookup visited two nested entries that start at the same point: the
\* inner one, which does not contain the query, and then the outer one,
\* which does and was returned.
C21_Witness ==
  /\ lastFind # <<>>
  /\ ~aborted
  /\ Len(Scanned) = 2
  /\ Scanned[1].key.begin = Scanned[2].key.begin
  /\ Scanned[1].key.size < Scanned[2].key.size
  /\ Scanned[1].scope = "s2"
  /\ Scanned[2].scope = "s1"
  /\ lastFind[1].result = "s1"

IndexEntries == [key : CharBlocks, scope : Scopes]

EntryCount(index, e) == Cardinality({i \in 1..Len(index) : index[i] = e})

One(b) == IF b THEN 1 ELSE 0

\* The index new is the index old with one entry of the scope under key more.
Registered(old, new, scope, key) ==
  \A e \in IndexEntries :
    EntryCount(new, e) = EntryCount(old, e) + One(e = [key |-> key, scope |-> scope])

\* The index new is the index old with the entry of the scope under was
\* taken out and one entry of the scope under key put in.
Rekeyed(old, new, scope, was, key) ==
  /\ \E i \in 1..Len(old) : old[i] = [key |-> was, scope |-> scope]
  /\ \A e \in IndexEntries :
       EntryCount(new, e) =
         EntryCount(old, e) - One(e = [key |-> was, scope |-> scope])
                            + One(e = [key |-> key, scope |-> scope])

\* The entries of the index are in the order of the comparator.
IndexOrdered(index) ==
  \A i, j \in 1..Len(index) :
    i < j => ~ScopeIndexComparator(index[j].key, index[i].key)

\* The range the scope of a call had when the call was made.
RangeAt(call) == call.ranges[call.scope]

\* The call found a range that is not empty and does not contain newSource.
Rekeys(call) == RangeAt(call).size # 0 /\ ~Contains(RangeAt(call), call.newSource)

\* C20: every call UpdateScopeIndex(scope, newSource) for a scope whose range
\* is not empty and does not contain newSource returns, having taken the
\* scope's entry out of the index and put the scope back under the union of
\* its range and newSource; every call for a scope whose range is empty
\* registers the scope under newSource; the index stays in the order of the
\* comparator.
C20_UpdateScopeIndex ==
  \A k \in 1..Len(lastUpdate) :
    LET call == lastUpdate[k]
    IN /\ call.ok
       /\ Rekeys(call) =>
            Rekeyed(call.before, call.after, call.scope, RangeAt(call),
                    ExtendToCover(RangeAt(call), call.newSource))
       /\ RangeAt(call).size = 0 =>
            Registered(call.before, call.after, call.scope, call.newSource)
       /\ IndexOrdered(call.after)

\* AddSourceRange for the inner scope registered it and then re-keyed its
\* parent, whose range did not contain the source, while the sibling of the
\* parent was indexed.
C20_Witness ==
  /\ Len(lastUpdate) = 2
  /\ ~aborted
  /\ lastUpdate[1].scope = "s2"
  /\ RangeAt(lastUpdate[1]).size = 0
  /\ lastUpdate[2].scope = "s1"
  /\ Rekeys(lastUpdate[2])
  /\ Len(lastUpdate[2].after) = 3
  /\ \E i \in 1..3 : lastUpdate[2].after[i].scope = "s3"
  /\ \E i \in 1..3 :
       lastUpdate[2].after[i] = [key |-> lastUpdate[2].newSource, scope |-> "s1"]

\* The entries of a scope in the index.
EntriesOfScope(index, scope) == {i \in 1..Len(index) : index[i].scope = scope}

\* The index holds one entry for every scope with a range that is not empty
\* and none for a scope with an empty range.
OneEntryEach(index, ranges) ==
  \A s \in Scopes :
    Cardinality(EntriesOfScope(index, s)) = One(ranges[s].size # 0)

\* The entries of the scopes other than scope, in the order of the index.
OtherEntries(index, scope) == SelectSeq(index, LAMBDA e : e.scope # scope)

\* The ranges once the caller has set the range of the scope to the source
\* it passed.
RangesAfter(call) == [call.ranges EXCEPT ![call.scope] = call.newSource]

\* C24: over any sequence of calls of UpdateScopeIndex after each of which
\* the caller sets the range of the scope to the source passed, the index
\* holds one entry for every scope with a range that is not empty and none
\* for a scope with an empty range; a call whose newSource the range, not
\* empty, contains leaves the index unchanged; a re-keying call changes the
\* entry of the given scope only.
C24_OneEntryPerScope ==
  /\ OneEntryEach(scopeIndex, sourceRange)
  /\ \A k \in 1..Len(lastUpdate) :
       LET call == lastUpdate[k]
       IN /\ call.ok
          /\ OneEntryEach(call.before, call.ranges)
          /\ OneEntryEach(call.after, RangesAfter(call))
          /\ (RangeAt(call).size # 0 /\ Contains(RangeAt(call), call.newSource)) =>
               call.after = call.before
          /\ Rekeys(call) =>
               /\ OtherEntries(call.after, call.scope) =
                    OtherEntries(call.before, call.scope)
               /\ Cardinality(EntriesOfScope(call.after, call.scope)) = 1

\* AddSourceRange for the inner scope re-keyed it and then called for its
\* parent, whose range contained the source: the parent is still under the
\* range it had, and the three scopes are indexed once each.
C24_Witness ==
  /\ Len(lastUpdate) = 2
  /\ ~aborted
  /\ lastUpdate[1].scope = "s2"
  /\ Rekeys(lastUpdate[1])
  /\ lastUpdate[1].after # lastUpdate[1].before
  /\ lastUpdate[2].scope = "s1"
  /\ RangeAt(lastUpdate[2]).size # 0
  /\ Contains(RangeAt(lastUpdate[2]), lastUpdate[2].newSource)
  /\ lastUpdate[2].after = lastUpdate[2].before
  /\ Len(scopeIndex) = 3
  /\ OneEntryEach(scopeIndex, sourceRange)

-----------------------------------------------------------------------------
(* Properties of the active index variables.                               *)

BoundNames == {n \in Names : NameSymbol(n) # <<>>}

\* The entity a bound name stands for.
Entity(n) == ResolveAssociations(NameSymbol(n)[1])

\* The step just taken was the call op on name n.
Called(op, n) == lastCall'.op = op /\ lastCall'.name = n

RedefineError(at, entry) ==
  /\ Len(messages') = Len(messages) + 1
  /\ SubSeq(messages', 1, Len(messages)) = messages
  /\ Last(messages').sev = "error"
  /\ Last(messages').at = at
  /\ Len(Last(messages').attach) = 1
  /\ Last(messages').attach[1].at = entry.location

\* C5 as stated: from the activation of a variable that was not held until
\* the deactivation with the same name, the variable is active with that
\* name's source as its location, and CheckIndexVarRedefine on it reports an
\* error with a note at that location; while no construct holds the
\* variable, which is so after the deactivation with the activating name,
\* neither a CheckIndexVarRedefine on it nor a new ActivateIndexVar of it, by
\* any name, reports anything.
C5_AsStated ==
  [][ \A n \in BoundNames :
        LET e == Entity(n)
        IN /\ holder[e] # <<>> =>
                /\ activeIndexVars[e] # <<>>
                /\ activeIndexVars[e][1].location = NameSource(holder[e][1])
           /\ (Called("Check", n) /\ holder[e] # <<>>) =>
                RedefineError(NameSource(n),
                              [location |-> NameSource(holder[e][1])])
           /\ (Called("Check", n) /\ holder[e] = <<>>) => messages' = messages
           /\ (Called("Activate", n) /\ holder[e] = <<>>) =>
                /\ messages' = messages
                /\ activeIndexVars'[e] # <<>>
                /\ activeIndexVars'[e][1].location = NameSource(n)
    ]_vars

\* C9 as stated: after ActivateIndexVar(name, kind) on a bound name the
\* active entry of the entity records the name's source and the kind.
C9_AsStated ==
  \A n \in BoundNames :
    (lastCall.op = "Activate" /\ lastCall.name = n) =>
      activeIndexVars[Entity(n)] = <<IndexVarInfo(NameSource(n), lastCall.kind)>>

\* C9, amended: ActivateIndexVar(name, kind) on a bound name first checks for
\* an active entry of the same underlying entity and reports an error with a
\* note at that entry's location if there is one; it then inserts an entry
\* with the name's source and the kind only if the entity has none: an
\* existing entry is kept as it is.  The entity is active after the call.
C9_ActivateKeepsEntry ==
  [][ \A n \in BoundNames :
        Called("Activate", n) =>
          LET e == Entity(n)
          IN /\ activeIndexVars'[e] # <<>>
             /\ \A o \in DOMAIN activeIndexVars \ {e} :
                  activeIndexVars'[o] = activeIndexVars[o]
             /\ IF activeIndexVars[e] # <<>>
                THEN /\ activeIndexVars'[e] = activeIndexVars[e]
                     /\ RedefineError(NameSource(n), activeIndexVars[e][1])
                ELSE /\ activeIndexVars'[e] =
                          <<IndexVarInfo(NameSource(n), lastCall'.kind)>>
                     /\ messages' = messages
    ]_vars

\* i was activated through the associate name while n1 held it: the error
\* was reported and the entry still has n1's location.
C9_Witness ==
  /\ lastCall.op = "Activate" /\ lastCall.name = "n2"
  /\ activeIndexVars["i"] # <<>>
  /\ activeIndexVars["i"][1].location = "L1"
  /\ activeIndexVars["i"][1].kind # lastCall.kind
  /\ Len(messages) = 1
  /\ messages[1].at = "L2"

\* C10 as stated: DeactivateIndexVar(name) removes the entry of the name's
\* underlying entity iff there is one and it was recorded at the name's
\* source; otherwise (no symbol, no entry, an entry recorded at another
\* place) the table is unchanged; the entries of other entities are never
\* touched.
C10_AsStated ==
  [][ \A n \in Names :
        Called("Deactivate", n) =>
          IF /\ NameSymbol(n) # <<>>
             /\ activeIndexVars[Entity(n)] # <<>>
             /\ activeIndexVars[Entity(n)][1].location = NameSource(n)
          THEN /\ activeIndexVars'[Entity(n)] = <<>>
               /\ \A o \in DOMAIN activeIndexVars \ {Entity(n)} :
                    activeIndexVars'[o] = activeIndexVars[o]
          ELSE activeIndexVars' = activeIndexVars
    ]_vars

\* The constructs entered and not left whose name is bound to a symbol.
OpenBound == {p \in 1..Len(nesting) : NameSymbol(nesting[p].name) # <<>>}

\* The entry an open construct's activation asks for.
EntryOf(p) == <<IndexVarInfo(NameSource(nesting[p].name), nesting[p].kind)>>

\* The open construct p is the outermost one of its entity.
Outermost(p) ==
  \A q \in OpenBound : q < p => Entity(nesting[q].name) # Entity(nesting[p].name)

\* C23 as stated, for the activation that found the entity not active:
\* between ActivateIndexVar(n1, k1) and the DeactivateIndexVar of the same
\* name occurrence, the entity is active with the location and kind of n1,
\* whatever properly nested pairs for other occurrences of the entity run in
\* between; an entity of which no construct is open is not active, so after
\* a properly nested sequence of pairs the table is empty.
C23_AsStated ==
  /\ \A p \in OpenBound :
       Outermost(p) => activeIndexVars[Entity(nesting[p].name)] = EntryOf(p)
  /\ \A e \in DOMAIN activeIndexVars :
       (\A p \in OpenBound : Entity(nesting[p].name) # e) => activeIndexVars[e] = <<>>

-----------------------------------------------------------------------------
(* The pipeline of Semantics::Perform.                                     *)

IsStage(name) == \E i \in 1..Len(PerformStages) : PerformStages[i] = name

StagesStarted == SelectSeq(performLog, IsStage)

AllSucceeded(n) == \A j \in 1..n : j <= Len(stageReturns) /\ stageReturns[j].ok

\* C4: the stages of Perform are started in the fixed order, a stage only
\* after every earlier one has returned success; once a stage has failed no
\* later stage is started and Perform returns failure; Perform returns
\* success iff every stage has returned success; the module files are
\* written at most once, and as the last stage.
C4_PerformStages ==
  /\ StagesStarted = SubSeq(PerformStages, 1, Len(StagesStarted))
  /\ Len(stageReturns) <= Len(StagesStarted)
  /\ Len(StagesStarted) <= Len(stageReturns) + 1
  /\ \A k \in 1..Len(stageReturns) : stageReturns[k].stage = PerformStages[k]
  /\ \A k \in 1..Len(StagesStarted) : AllSucceeded(k - 1)
  /\ \A k \in 1..Len(stageReturns) :
       ~stageReturns[k].ok =>
         /\ Len(StagesStarted) = k
         /\ Last(performLog) \notin {"WriteAll"} \/ k = Len(PerformStages)
         /\ pc = "done"
         /\ performResult = <<FALSE>>
  /\ pc = "done" <=> performResult # <<>>
  /\ performResult # <<>> =>
       performResult[1] = (Len(stageReturns) = Len(PerformStages)
                           /\ AllSucceeded(Len(PerformStages)))
  /\ \A i \in 1..Len(performLog) :
       performLog[i] = "WriteAll" => i = Len(performLog) /\ AllSucceeded(Len(PerformStages) - 1)

\* Label validation has failed: nothing else was started and Perform has
\* returned failure.
C4_Witness ==
  /\ performLog = <<"ValidateLabels">>
  /\ stageReturns = <<[stage |-> "ValidateLabels", ok |-> FALSE]>>
  /\ performResult = <<FALSE>>

-----------------------------------------------------------------------------
(* The composed traversal.                                                 *)

\* C6: for a statement node, nested statements in its subtree or not, the
\* location is the statement's source when its Enter handlers run, the Enter
\* and Leave handlers of A and B run in that order, the location is set at
\* every Enter and Leave handler of the statement, and it is none right
\* after the statement's Leave handlers.
C6_AsStated ==
  \A i \in 1..Len(lastEvent) :
    LET e == lastEvent[i] IN
    IsStatement(e.type) =>
      /\ e.location # <<>>
      /\ e.phase = "Enter" =>
           /\ e.location = <<NodeSource(e.id)>>
           /\ e.ran = Dispatch(EnterHandlers(e.type))
      /\ e.phase = "Leave" =>
           /\ e.ran = Dispatch(LeaveHandlers(e.type))
           /\ location = <<>>

-----------------------------------------------------------------------------
(* The reports of the index-variable checks.                               *)

\* The step appended one message of severity sev at the given source, with
\* one note at the location of the entry.
RedefineReport(sev, at, entry) ==
  /\ Len(messages') = Len(messages) + 1
  /\ SubSeq(messages', 1, Len(messages)) = messages
  /\ Last(messages').sev = sev
  /\ Last(messages').at = at
  /\ Last(messages').arg[1] = entry.kind
  /\ Len(Last(messages').attach) = 1
  /\ Last(messages').attach[1].at = entry.location
  /\ Last(messages').attach[1].arg = entry.kind

\* C11: on a name whose entity is active CheckIndexVarRedefine appends one
\* error and WarnIndexVarRedefine, when the warning is enabled, one warning,
\* each with one note at the location of the entity's entry; a disabled
\* WarnIndexVarRedefine, and either call on an entity that is not active or
\* on a name without a symbol, appends nothing; neither call changes the
\* table of active index variables.
C11_RedefineReports ==
  [][ \A n \in Names :
        /\ (Called("Check", n) \/ Called("Warn", n)) =>
             activeIndexVars' = activeIndexVars
        /\ (Called("Check", n) \/ Called("Warn", n)) /\ n \notin BoundNames =>
             messages' = messages
        /\ n \in BoundNames =>
             LET entry == activeIndexVars[Entity(n)]
             IN /\ Called("Check", n) =>
                     IF entry # <<>>
                     THEN RedefineReport("error", NameSource(n), entry[1])
                     ELSE messages' = messages
                /\ Called("Warn", n) =>
                     IF entry # <<>> /\ "IndexVarRedefinition" \in shouldWarn
                     THEN RedefineReport("warning", NameSource(n), entry[1])
                     ELSE messages' = messages
    ]_vars

\* i is active from n1 and a possible redefinition through the associate
\* name a was warned about, with a note at n1's source.
C11_Witness ==
  /\ lastCall.op = "Warn"
  /\ lastCall.name = "n2"
  /\ activeIndexVars["i"] # <<>>
  /\ activeIndexVars["i"][1].location = "L1"
  /\ Len(messages) = 1
  /\ messages[1].sev = "warning"
  /\ messages[1].at = "L2"
  /\ messages[1].attach[1].at = "L1"

-----------------------------------------------------------------------------
(* The error set.                                                          *)

\* C12: SetError(symbol, true) adds the symbol to the error set only if a
\* fatal diagnostic has been recorded; with none recorded the process is
\* ended and the symbol is not added; so while the process has not been
\* ended a non-empty error set implies a recorded fatal diagnostic.
C12_SetError ==
  /\ [](~aborted /\ errorSymbols # {} => AnyFatalError)
  /\ [][ \A symbol \in Symbols :
           lastSetError' = <<[symbol |-> symbol, value |-> TRUE]>> =>
             IF AnyFatalError
             THEN /\ errorSymbols' = errorSymbols \cup {symbol}
                  /\ aborted' = aborted
             ELSE /\ errorSymbols' = errorSymbols
                  /\ aborted'
       ]_vars

\* A symbol was marked after an error had been reported.
C12_Witness ==
  /\ ~aborted
  /\ errorSymbols = {"i"}
  /\ lastSetError = <<[symbol |-> "i", value |-> TRUE]>>
  /\ Len(messages) = 1
  /\ messages[1].sev = "error"

-----------------------------------------------------------------------------
(* The built-in modules.                                                   *)

ReadsOf(name) == Cardinality({i \in 1..Len(moduleReads) : moduleReads[i] = name})

\* C13: whatever the reader returns, every built-in module is read at most
\* once.
C13_AsStated == \A name \in BuiltinModules : ReadsOf(name) <= 1

-----------------------------------------------------------------------------
(* Temporary names.                                                        *)

\* C14: the name GetTempName returns has the reserved prefix and is not
\* declared in the scope at the time of the call; it is a pooled name that
\* the scope does not have, or a new name whose suffix is greater than that
\* of every name synthesized before.
C14_AsStated ==
  \A i \in 1..Len(lastTemp) :
    LET call == lastTemp[i] IN
    /\ IsTempName(call.name)
    /\ ~call.declared
    /\ \/ call.pooled /\ call.saved
       \/ /\ ~call.pooled
          /\ ~call.saved
          /\ \A n \in call.synthesized : TailRank(call.name.tail) > 1 + n

-----------------------------------------------------------------------------
(* The construct stack during a traversal.                                 *)

\* The construct nodes among the nodes entered and not left, outermost first.
OpenConstructs ==
  LET open == SelectSeq(walkStack, LAMBDA node : IsConstruct(node.type))
  IN [i \in 1..Len(open) |-> open[i].id]

\* C15: the construct stack holds the construct nodes entered and not left;
\* when the Enter and Leave handlers of a node run, it holds the constructs
\* that enclose the node, and the node if it is a construct; it is empty
\* outside constructs and after the walk; PopConstruct is never run on an
\* empty stack.
C15_ConstructStack ==
  /\ constructStack = OpenConstructs
  /\ \A i \in 1..Len(lastEvent) :
       LET e == lastEvent[i] IN
       /\ e.phase = "Enter" => e.constructStack = OpenConstructs
       /\ e.phase = "Leave" =>
            e.constructStack =
              OpenConstructs \o (IF IsConstruct(e.type) THEN <<e.id>> ELSE <<>>)
       /\ aborted => e.type = "EntryStmt"
  /\ walkResult # <<>> => constructStack = <<>>

\* The Leave of a construct nested in another ran with both on the stack,
\* and the outer one is still open.
C15_Witness ==
  /\ lastEvent # <<>>
  /\ lastEvent[1].phase = "Leave"
  /\ IsConstruct(lastEvent[1].type)
  /\ Len(lastEvent[1].constructStack) = 2
  /\ Len(constructStack) = 1

-----------------------------------------------------------------------------
(* The result of a walk.                                                   *)

\* A message that ends the compilation: an error, or a warning when
\* warnings are errors.
Fatal(message) ==
  message.sev = "error" \/ (message.sev = "warning" /\ warningsAreErrors)

ReportedDuringWalk == SubSeq(messages, walkStart + 1, Len(messages))

\* C16 as stated: Walk returns true iff no fatal diagnostic was reported
\* during the walk, whatever the message list held when the walk started.
C16_AsStated ==
  walkResult # <<>> =>
    walkResult[1] =
      ~(\E i \in 1..Len(ReportedDuringWalk) : Fatal(ReportedDuringWalk[i]))

\* C16: Walk returns true iff the message list holds no fatal diagnostic
\* when the walk is over, reported during the walk or before it; when it
\* held none at the start, that is iff none was reported during the walk.
C16_WalkResult ==
  walkResult # <<>> =>
    /\ walkResult[1] = ~(\E i \in 1..Len(messages) : Fatal(messages[i]))
    /\ ~(\E i \in 1..walkStart : Fatal(messages[i])) =>
         walkResult[1] =
           ~(\E i \in 1..Len(ReportedDuringWalk) : Fatal(ReportedDuringWalk[i]))

\* A walk that started after a warning, with warnings as errors, and during
\* which nothing was reported has returned false.
C16_Witness ==
  /\ walkResult = <<FALSE>>
  /\ warningsAreErrors
  /\ walkStart = 1
  /\ Len(messages) = 1
  /\ messages[1].sev = "warning"

-----------------------------------------------------------------------------
(* The steps of PerformStatementSemantics.                                 *)

\* The step taken executed the step that pc names.
Executed == performLog' = Append(performLog, pc)

\* The step taken passed over the step that pc names.
Skipped == performLog' = performLog

CompileStep == "CompileDataInitializationsIntoInitializers"

\* A severity that ends the compilation.
FatalSeverity(sev) == sev = "error" \/ (sev = "warning" /\ warningsAreErrors)

\* C17 as stated: the data initializations are compiled iff no earlier step
\* of this run of PerformStatementSemantics has reported a fatal error.
C17_AsStated ==
  [][ pc = CompileStep =>
        (Executed <=> ~(\E sev \in runReports : FatalSeverity(sev)))
    ]_vars

\* C17: the first six steps are executed in their order whatever has been
\* reported; the data initializations are compiled iff the message list
\* holds no fatal error then, from an earlier step of the run or from before
\* the run; the function returns success iff the list holds no fatal error
\* when it returns.
C17_StatementSemantics ==
  [][ /\ \A k \in 1..6 :
           pc = SemanticsSteps[k] => Executed /\ pc' = SemanticsSteps[k + 1]
      /\ pc = CompileStep =>
           /\ Executed \/ Skipped
           /\ Executed <=> ~(\E i \in 1..Len(messages) : Fatal(messages[i]))
           /\ pc' = "return"
      /\ pc = "return" =>
           /\ Len(stageReturns') = Len(stageReturns) + 1
           /\ Last(stageReturns').stage = "PerformStatementSemantics"
           /\ Last(stageReturns').ok = ~(\E i \in 1..Len(messages) : Fatal(messages[i]))
    ]_vars

\* A run in which name resolution reported an error: the six steps were all
\* executed, the data initializations were not compiled, and the function
\* returned failure.
C17_Witness ==
  /\ "error" \in runReports
  /\ Len(messages) = 1
  /\ messages[1].sev = "error"
  /\ Len(stageReturns) = 6
  /\ performLog = SubSeq(PerformStages, 1, 6) \o SubSeq(SemanticsSteps, 1, 6)
  /\ stageReturns[6] = [stage |-> "PerformStatementSemantics", ok |-> FALSE]
  /\ performResult = <<FALSE>>

DescentStep == "WarnUndefinedFunctionResult"

\* The step was executed in this call of PerformStatementSemantics.
HasRun(step) == \E i \in 1..Len(performLog) : performLog[i] = step

\* The message list holds warnings and no error.
OnlyWarnings ==
  /\ \E i \in 1..Len(messages) : messages[i].sev = "warning"
  /\ ~(\E i \in 1..Len(messages) : messages[i].sev = "error")

\* C25: in PerformStatementSemantics the data initializations are compiled
\* only after the descent for undefined function results has run in the
\* same call.  The converse fails: the descent runs iff the message list
\* holds no error, warnings as errors or not, while the compilation and the
\* result go by the context, for which a warning is fatal when warnings are
\* errors; so with warnings as errors and only warnings reported by the time
\* the compilation is reached, one of the descent itself included, the
\* descent has run, the data initializations are not compiled and the
\* result is failure.
C25_DescentBeforeDataInit ==
  [][ /\ pc = DescentStep =>
           (Executed <=> ~(\E i \in 1..Len(messages) : messages[i].sev = "error"))
      /\ (pc = CompileStep /\ Executed) =>
           \E i \in 1..Len(performLog) : performLog[i] = DescentStep
      /\ (pc = CompileStep /\ warningsAreErrors /\ OnlyWarnings) =>
           /\ HasRun(DescentStep)
           /\ Skipped
      /\ (pc = "return" /\ warningsAreErrors /\ OnlyWarnings) =>
           /\ HasRun(DescentStep)
           /\ Last(stageReturns') = [stage |-> "PerformStatementSemantics", ok |-> FALSE]
    ]_vars

\* With warnings as errors the only message is the warning of the descent:
\* the descent was the last step executed, the data initializations were
\* not compiled, and the function returned failure.
C25_Witness ==
  /\ warningsAreErrors
  /\ messages = <<UndefinedFunctionResultMessage>>
  /\ Len(performLog) > 0
  /\ Last(performLog) = DescentStep
  /\ Len(stageReturns) > 0
  /\ Last(stageReturns) = [stage |-> "PerformStatementSemantics", ok |-> FALSE]
  /\ performResult = <<FALSE>>

-----------------------------------------------------------------------------
(* The distinct-sizes warning.                                             *)

\* The portability warnings that the step taken appended.
SizeWarnings ==
  SelectSeq(SubSeq(messages', Len(messages) + 1, Len(messages')),
            LAMBDA m : m.sev = "portability")

\* The appearance differs in size from the recorded biggest appearance of
\* its object name, and is of a named block.
DistinctSizes(common) ==
  /\ AppearancesOf(GetCommonBlockObjectName(common)) # {}
  /\ symSize[common] #
       symSize[commonBlocks[GetCommonBlockObjectName(common)].biggestSize]
  /\ SymbolName(common) # ""

\* C18 as stated: the merge of a later appearance appends the distinct-sizes
\* warning iff its size differs from that of the recorded biggest appearance
\* and the block is named.
C18_AsStated ==
  [][ \A common \in CommonSyms :
        Merged(common) => (Len(SizeWarnings) = 1 <=> DistinctSizes(common))
    ]_vars

\* C18: the merge of a later appearance appends one distinct-sizes warning
\* iff its size differs from that of the recorded biggest appearance, the
\* block is named and the DistinctCommonSizes warning is enabled; the warning
\* is at the appearance with its size, with one note at the biggest
\* appearance recorded before the merge, with that one's size; otherwise, as
\* on a first appearance, for a blank block and on equal sizes, none is
\* appended.
C18_DistinctSizesWarning ==
  [][ \A common \in CommonSyms :
        Merged(common) =>
          IF DistinctSizes(common) /\ "DistinctCommonSizes" \in shouldWarn
          THEN LET biggest ==
                     commonBlocks[GetCommonBlockObjectName(common)].biggestSize
               IN /\ Len(SizeWarnings) = 1
                  /\ SizeWarnings[1].at = common
                  /\ SizeWarnings[1].arg = symSize[common]
                  /\ Len(SizeWarnings[1].attach) = 1
                  /\ SizeWarnings[1].attach[1].at = biggest
                  /\ SizeWarnings[1].attach[1].arg = symSize[biggest]
          ELSE SizeWarnings = <<>>
    ]_vars

\* c1 was merged after c2, which goes by the same object name with another
\* size: one warning at c1 with a note at c2.
C18_Witness ==
  /\ mergeLog = <<"c2", "c1">>
  /\ symSize["c1"] # symSize["c2"]
  /\ Len(messages) = 1
  /\ messages[1].sev = "portability"
  /\ messages[1].at = "c1"
  /\ messages[1].attach[1].at = "c2"

-----------------------------------------------------------------------------
(* The built-in modules that Perform asks for.                             *)

ReservedModules == {"__fortran_builtins", "__ppc_types", "__ppc_intrinsics", "mma"}

Requested(name) == \E i \in 1..Len(moduleReads) : moduleReads[i] = name

\* C19 as stated: the Fortran builtins module is requested unless the
\* program is one of the reserved modules.
C19_AsStated ==
  pc # "begin" =>
    /\ Requested("__fortran_builtins") <=> frontModule \notin ReservedModules
    /\ frontModule \in {"__fortran_builtins", "__ppc_types"} => moduleReads = <<>>
    /\ Requested("__ppc_types") /\ Requested("__ppc_intrinsics") => isPPC

\* C19: before a stage is started, Perform requests the Fortran builtins
\* module iff the program has a program unit and does not start with one of
\* the reserved modules, and then also the PPC types and PPC intrinsics
\* modules iff the target is PowerPC; for __ppc_intrinsics and mma it requests
\* the PPC types module only, for __fortran_builtins and __ppc_types and for
\* a program without program units it requests nothing.
C19_BuiltinRequests ==
  /\ pc = "begin" => moduleReads = <<>> /\ performLog = <<>>
  /\ pc # "begin" =>
       moduleReads =
         CASE frontModule \in {EmptyProgram, "__fortran_builtins", "__ppc_types"} -> <<>>
           [] frontModule \in {"__ppc_intrinsics", "mma"} -> <<"__ppc_types">>
           [] OTHER -> IF isPPC
                       THEN <<"__fortran_builtins", "__ppc_types", "__ppc_intrinsics">>
                       ELSE <<"__fortran_builtins">>

\* For a module m on a PowerPC target the three modules have been requested
\* and no stage has been started.
C19_Witness ==
  /\ frontModule = "m"
  /\ isPPC
  /\ moduleReads = <<"__fortran_builtins", "__ppc_types", "__ppc_intrinsics">>
  /\ pc = "ValidateLabels"
  /\ performLog = <<>>

=============================================================================
